---- MODULE Spec2Model ----
(***************************************************************************)
(* LoanzZz lending backend: the ledger (users, loans, transactions,        *)
(* margin_calls, staking_pool), the loan engine, the liquidation engine    *)
(* and the scheduler ticks, as a state machine.                            *)
(*                                                                         *)
(* Numbers.  The code computes in reals (binary floats); the model keeps   *)
(* every amount an integer and every LTV an exact fraction [n, d], and the *)
(* input sets below are chosen so that every division the code performs on *)
(* an amount is exact (the variable `exact` records it).  Amounts of an    *)
(* asset are counted in that asset's own unit; a price is the USD value of *)
(* one unit, in a common integer price unit.                               *)
(*                                                                         *)
(* Control.  Node runs one handler at a time and switches handlers only at *)
(* an `await`.  A handler is a task: the action that starts it runs the    *)
(* code up to its first await on the price oracle, each later action runs  *)
(* from one resumption to the next await (or the end).  mode = "serial"    *)
(* lets a handler finish before anything else moves; "interleaved" lets    *)
(* other handlers and the clock move in between.  The oracle's answer to   *)
(* an await is an input of the action that resumes after it.               *)
(*                                                                         *)
(* Not modelled: the columns collateral_value_usd / borrowed_value_usd /   *)
(* created_at (written, never read by the engine), and the two cache keys  *)
(* XEC and XECX of the oracle (XECX is priced as XEC).                     *)
(***************************************************************************)
EXTENDS Integers, Sequences, FiniteSets, TLC

VARIABLES
    users,          \* users table: id -> balances
    loans,          \* loans table: a sequence, a loan's id is its index
    transactions,   \* transactions table, in insertion order
    margin_calls,   \* margin_calls table, in insertion order
    staking_pool,   \* the 'main' row of staking_pool
    now,            \* the clock, in ticks
    tasks,          \* handlers suspended at an await, in start order
    last,           \* the outcome of the handler that finished last
    acct,           \* history: per loan, collateral taken from / paid to the owner
    exact,          \* history: no division on an amount has had a remainder
    mode,           \* "serial" | "interleaved"
    budget,         \* handlers that may still be started
    emitted,        \* the broadcastToUser calls of the handler step taken last
    userConnections,\* websocket bus: user id -> the channels attached to it
    sockets,        \* websocket bus: channel -> readyState and the handler's userId
    inbox,          \* websocket bus: channel -> the frames sent to it, in order
    saved,          \* the database file: the tables as saveDatabase wrote them last
    priceMemoryCache,\* price oracle: asset -> the price cached in memory and when
    price_cache,    \* price oracle: the price_cache table, asset -> price_usd
    fetching,       \* price oracle: the getPrice calls waiting for the feed's answer
    wall,           \* Date.now(), in half price-cache lifetimes
    quote           \* the loan terms calculated last, and createLoan's test of them

bus == <<userConnections, sockets, inbox>>

oracle == <<priceMemoryCache, price_cache, fetching, wall, quote>>

vars == <<users, loans, transactions, margin_calls, staking_pool, now,
          tasks, last, acct, exact, mode, budget, emitted, bus, saved, oracle>>

\* The tables of the in-memory database.
Ledger == [users |-> users, loans |-> loans, transactions |-> transactions,
           margin_calls |-> margin_calls, staking_pool |-> staking_pool]

----------------------------------------------------------------------------
(* Bounds of the model *)

MaxLoans == 2
MaxOps == 3
MaxInFlight == 2
MaxTime == 2

Users == {"u1", "u2"}

\* Websocket channels, and the userId of a connection before its auth frame.
MaxChannels == 2
Channels == 1..MaxChannels
NoUser == ""

----------------------------------------------------------------------------
(* Program constants *)

INITIAL_LTV == 65
MARGIN_CALL_LTV == 75
LIQUIDATION_LTV == 83
\* HOURLY_INTEREST_RATE = 0.0001 = RateNum / RateDen
RateNum == 1
RateDen == 10000
\* LIQUIDATION_FEE = 0.02 = FeeNum / FeeDen
FeeNum == 2
FeeDen == 100
CriticalLTV == 80
\* ESTIMATED_DAILY_YIELD_RATE = 0.0001 = YieldNum / YieldDen
YieldNum == 1
YieldDen == 10000
FirmaPrice == 1
PlatformBase == 50000
NULL == 0

\* One tick of the clock, in hours: the span in which a principal of RateDen
\* earns 50 units of interest, so that interest and liquidation amounts stay whole.
HoursPerTick == RateDen \div 200

\* Staking rewards are counted in 1/RewardUnit of an XEC: the daily reward of a
\* whole pool is then whole, and so is a half, a third or a quarter of it.
RewardUnit == YieldDen * 12

Assets == {"XEC", "FIRMA", "XECX"}

\* The prices the feed may answer, per XEC unit (FIRMA is 1 per FIRMA unit).
Prices == {0, 65, 83}

\* The prices of a feed that moves through the margin band and never fails.
RiskPrices == {65, 75, 83}

\* Every price of the two sets.
AnyPrice == Prices \cup RiskPrices

\* The oracle's last-resort default for XEC and XECX: 0.00003 USD.
DefaultPrice == 30

\* PRICE_CACHE_TTL (one minute), in steps of the wall clock.
PRICE_CACHE_TTL == 2

\* The wall clock stops here.
MaxWall == 3

\* What the price feed may send back: an HTTP status and the body's ecash.usd.
FeedResponses == [ok : BOOLEAN, usd : {0, 65, 83}]

\* What a client may ask POST /loans for: collateral and borrow asset and amount.
\* The last entry is a request body with a negative collateralAmount.
Offers == {
    [collateralType |-> "FIRMA", collateralAmount |-> 3000000,
     borrowedType |-> "XEC", borrowedAmount |-> 30000],
    [collateralType |-> "XEC", collateralAmount |-> 400,
     borrowedType |-> "FIRMA", borrowedAmount |-> 13000],
    [collateralType |-> "XECX", collateralAmount |-> 400,
     borrowedType |-> "FIRMA", borrowedAmount |-> 13000],
    [collateralType |-> "XEC", collateralAmount |-> -400,
     borrowedType |-> "FIRMA", borrowedAmount |-> 13000] }

\* The well-formed requests among them.
RiskOffers == {o \in Offers : o.collateralAmount > 0 /\ o.collateralType # "XECX"}

DepositAmounts(asset) == IF asset = "FIRMA" THEN {3000000} ELSE {400}

\* Who deposits: u1 is funded, u2 holds nothing.
Depositors == {"u1"}

WithdrawAmounts == {13000}

AddAmounts(asset) == IF asset = "FIRMA" THEN {320000} ELSE {400}

LoanIds == 1..MaxLoans

----------------------------------------------------------------------------
(* Values *)

\* A real number n / d with d >= 0; d = 0 is +Infinity (n > 0), -Infinity
\* (n < 0) or NaN (n = 0), as a float division by zero gives.
Frac(n, d) == IF d < 0 THEN [n |-> -n, d |-> -d] ELSE [n |-> n, d |-> d]

FracGT(f, t) == f.n > t * f.d
FracGE(f, t) == f.n >= t * f.d
FracLT(f, t) == f.n < t * f.d
FracLE(f, t) == f.n <= t * f.d
IsNaN(f) == f.n = 0 /\ f.d = 0

Min(a, b) == IF a <= b THEN a ELSE b
Max(a, b) == IF a >= b THEN a ELSE b

RemoveAt(s, i) == [j \in 1..(Len(s) - 1) |-> IF j < i THEN s[j] ELSE s[j + 1]]

BalanceColumn(asset) ==
    CASE asset = "XEC" -> "balance_xec"
      [] asset = "FIRMA" -> "balance_firma"
      [] asset = "XECX" -> "balance_xecx"

Closed(status) == status = "liquidated" \/ status = "repaid"

----------------------------------------------------------------------------
(* Price oracle *)

\* xec is the feed's answer for XEC (and XECX); FIRMA is pegged.
getPrice(asset, xec) == IF asset = "FIRMA" THEN FirmaPrice ELSE xec

toUSD(asset, amount, xec) == amount * getPrice(asset, xec)

----------------------------------------------------------------------------
(* Loan engine: pure parts *)

calculateLTV(borrowedType, borrowedAmount, accruedInterest, collateralType, collateralAmount, xec) ==
    LET borrowedValue == toUSD(borrowedType, borrowedAmount + accruedInterest, xec)
        collateralValue == toUSD(collateralType, collateralAmount, xec)
    IN  IF collateralValue = 0 THEN Frac(100, 1)
        ELSE Frac(borrowedValue * 100, collateralValue)

\* createLoan's own ltv: (borrowedValueUSD / collateralValueUSD) * 100, with no
\* test for a zero collateral value; a negative amount at price 0 is -0.
CreateLtv(o, xec) ==
    LET collateralValueUSD == toUSD(o.collateralType, o.collateralAmount, xec)
        borrowedValueUSD == toUSD(o.borrowedType, o.borrowedAmount, xec)
    IN  IF collateralValueUSD # 0
        THEN Frac(borrowedValueUSD * 100, collateralValueUSD)
        ELSE [n |-> IF o.collateralAmount < 0 THEN -borrowedValueUSD ELSE borrowedValueUSD,
              d |-> 0]

\* A variant of the test that also refuses an LTV of exactly INITIAL_LTV.
LtvAtLeast(ltv) == FracGE(ltv, INITIAL_LTV)

LtvExceeds(ltv) == FracGT(ltv, INITIAL_LTV)

----------------------------------------------------------------------------
(* Websocket events: the calls of broadcastToUser. The message texts and the *)
(* fee in USD that the frames also carry are not modelled.                   *)

broadcastBalanceUpdate(userId, row) ==
    [userId |-> userId, event |-> "balance:update",
     data |-> [xec |-> row.balance_xec, firma |-> row.balance_firma, xecx |-> row.balance_xecx]]

broadcastLTVUpdate(userId, loanId, ltv) ==
    [userId |-> userId, event |-> "loan:ltv:update", data |-> [loanId |-> loanId, ltv |-> ltv]]

broadcastMarginCall(userId, loanId, ltv) ==
    [userId |-> userId, event |-> "loan:margin-call", data |-> [loanId |-> loanId, ltv |-> ltv]]

broadcastLiquidation(userId, loanId, collateralSold, debtCovered, returned) ==
    [userId |-> userId, event |-> "loan:liquidation",
     data |-> [loanId |-> loanId, collateralSold |-> collateralSold,
               debtCovered |-> debtCovered, returned |-> returned]]

\* The per-user events.
Events == {"balance:update", "loan:ltv:update", "loan:margin-call", "loan:liquidation",
           "staking:reward"}

\* No client has connected yet. `authed` is history: the users a channel has
\* sent an auth frame for.
InitBus ==
    /\ userConnections = [u \in Users |-> {}]
    /\ sockets = [c \in Channels |->
                    [readyState |-> "CONNECTING", userId |-> NoUser, authed |-> {}]]
    /\ inbox = [c \in Channels |-> <<>>]

\* No loan terms have been calculated yet.
NoQuote == [stage |-> "none"]

\* The price oracle after startup: nothing cached in memory, the price_cache
\* table as the schema seeds it, no call under way.
NoCacheEntry == [has |-> FALSE, price |-> 0, timestamp |-> 0]

InitOracle ==
    /\ priceMemoryCache = [a \in Assets |-> NoCacheEntry]
    /\ price_cache = [a \in Assets |->
                        [has |-> TRUE, price_usd |-> IF a = "FIRMA" THEN FirmaPrice ELSE DefaultPrice]]
    /\ fetching = <<>>
    /\ wall = 0
    /\ quote = NoQuote

----------------------------------------------------------------------------
(* Initial state: the schema's bootstrap, two registered users *)

Tx(userId, loanId, type, asset, amount, status) ==
    [user_id |-> userId, loan_id |-> loanId, type |-> type, asset |-> asset,
     amount |-> amount, status |-> status]

NoUserRow == [balance_xec |-> 0, balance_firma |-> 0, balance_xecx |-> 0,
              staking_rewards_earned |-> 0]

\* The ledger after u1's first two deposits (POST /deposits/firma, /deposits/xec).
Funded == [NoUserRow EXCEPT !.balance_firma = 3000000, !.balance_xec = 400]

InitCommon ==
    /\ users = [u \in Users |-> IF u \in Depositors THEN Funded ELSE NoUserRow]
    /\ loans = <<>>
    /\ transactions = <<Tx("u1", NULL, "deposit_firma", "FIRMA", 3000000, "confirmed"),
                        Tx("u1", NULL, "deposit_xec", "XEC", 400, "confirmed")>>
    /\ margin_calls = <<>>
    /\ staking_pool = [platform_base_xecx |-> PlatformBase, user_contributed_xecx |-> 0,
                       total_xecx |-> PlatformBase, last_reward_distribution |-> NULL,
                       total_rewards_distributed |-> 0]
    /\ now = 1
    /\ tasks = <<>>
    /\ last = [op |-> "none", ok |-> TRUE, error |-> ""]
    /\ acct = <<>>
    /\ exact = TRUE
    /\ emitted = <<>>
    /\ InitBus
    /\ saved = Ledger
    /\ InitOracle

Init == InitCommon /\ mode = "serial" /\ budget = MaxOps

InitInterleaved == InitCommon /\ mode = "interleaved" /\ budget = MaxOps

CanStart ==
    /\ budget > 0
    /\ IF mode = "serial" THEN tasks = <<>> ELSE Len(tasks) < MaxInFlight

EnvCanMove == mode = "interleaved" \/ tasks = <<>>

----------------------------------------------------------------------------
(* Deposits and withdrawal *)

\* A variant that reads the user before the UPDATE.
UserReadFirst(before, after) == before

\* updatedUser: the user's row as read back after the UPDATE and the INSERT
UpdatedUser(before, after) == after

\* POST /deposits/xec and POST /deposits/firma
Deposit(u, asset, amount) ==
    /\ CanStart
    /\ users' = [users EXCEPT ![u][BalanceColumn(asset)] = @ + amount]
    /\ transactions' = Append(transactions,
            Tx(u, NULL, IF asset = "XEC" THEN "deposit_xec" ELSE "deposit_firma",
               asset, amount, "confirmed"))
    /\ last' = [op |-> "deposit", ok |-> TRUE, error |-> ""]
    /\ emitted' = <<broadcastBalanceUpdate(u, UpdatedUser(users[u], users'[u]))>>
    /\ budget' = budget - 1
    /\ UNCHANGED <<loans, margin_calls, staking_pool, now, tasks, acct, exact, mode, bus, oracle>>
    /\ saved' = Ledger'

\* convertFIRMAtoUSDT
WithdrawFirma(u, firmaAmount) ==
    /\ CanStart
    /\ budget' = budget - 1
    /\ emitted' = <<>>
    /\ IF users[u].balance_firma < firmaAmount
       THEN /\ last' = [op |-> "withdraw", ok |-> FALSE, error |-> "Insufficient FIRMA balance"]
            /\ UNCHANGED <<users, transactions>>
       ELSE /\ users' = [users EXCEPT ![u].balance_firma = @ - firmaAmount]
            /\ transactions' = Append(transactions,
                    Tx(u, NULL, "withdraw_firma", "FIRMA", firmaAmount, "pending"))
            /\ last' = [op |-> "withdraw", ok |-> TRUE, error |-> ""]
    /\ UNCHANGED <<loans, margin_calls, staking_pool, now, tasks, acct, exact, mode, bus, oracle>>
    /\ saved' = IF last'.ok THEN Ledger' ELSE saved

----------------------------------------------------------------------------
(* Loan creation: POST /loans, then createLoan *)

Finish(i, outcome) ==
    /\ tasks' = RemoveAt(tasks, i)
    /\ last' = outcome

\* The route's balance test: balance_xec for XEC, balance_firma for anything else.
RouteBalance(u, collateralType) ==
    IF collateralType = "XEC" THEN users[u].balance_xec ELSE users[u].balance_firma

InsufficientBalance(u, o) == RouteBalance(u, o.collateralType) < o.collateralAmount

\* The route up to createLoan's first await on the oracle.
CreateLoanRequest(u, o) ==
    /\ CanStart
    /\ Len(loans) + Cardinality({i \in 1..Len(tasks) : tasks[i].kind = "create"}) < MaxLoans
    /\ budget' = budget - 1
    /\ IF InsufficientBalance(u, o)
       THEN /\ last' = [op |-> "create", ok |-> FALSE, error |-> "InsufficientBalance"]
            /\ emitted' = <<>>
            /\ UNCHANGED tasks
       ELSE /\ tasks' = Append(tasks, [kind |-> "create", userId |-> u, offer |-> o])
            /\ UNCHANGED <<last, emitted>>
    /\ UNCHANGED <<users, loans, transactions, margin_calls, staking_pool, now,
                   acct, exact, mode, bus, oracle>>
    /\ UNCHANGED saved

\* A variant of the inserted row whose current_ltv is not the LTV computed.
NewLoanWithoutCurrentLtv(loanId, u, o, ltv) ==
    [id |-> loanId, user_id |-> u, status |-> "active",
     collateral_type |-> o.collateralType, collateral_amount |-> o.collateralAmount,
     borrowed_type |-> o.borrowedType, borrowed_amount |-> o.borrowedAmount,
     accrued_interest |-> 0, initial_ltv |-> ltv, current_ltv |-> Frac(1, 1),
     staking_yield_earned |-> 0, updated_at |-> now, last_interest_update |-> now,
     closed_at |-> NULL]

NewLoan(loanId, u, o, ltv) ==
    [id |-> loanId, user_id |-> u, status |-> "active",
     collateral_type |-> o.collateralType, collateral_amount |-> o.collateralAmount,
     borrowed_type |-> o.borrowedType, borrowed_amount |-> o.borrowedAmount,
     accrued_interest |-> 0, initial_ltv |-> ltv, current_ltv |-> ltv,
     staking_yield_earned |-> 0, updated_at |-> now, last_interest_update |-> now,
     closed_at |-> NULL]

\* addToStakingPool
addToStakingPool(pool, xecAmount) ==
    [pool EXCEPT !.user_contributed_xecx = @ + xecAmount, !.total_xecx = @ + xecAmount]

\* createLoan from the oracle's answer on: the LTV test and the transaction, then
\* the route's addToStakingPool.
CreateLoanResume(i, xec) ==
    /\ i \in 1..Len(tasks)
    /\ tasks[i].kind = "create"
    /\ LET u == tasks[i].userId
           o == tasks[i].offer
           ltv == CreateLtv(o, xec)
           loanId == Len(loans) + 1
       IN  IF LtvExceeds(ltv)
           THEN /\ Finish(i, [op |-> "create", ok |-> FALSE, error |-> "LTVExceeded"])
                /\ UNCHANGED <<users, loans, transactions, staking_pool, acct>>
           ELSE IF IsNaN(ltv)
           THEN \* NaN is bound as NULL: initial_ltv NOT NULL fails, the transaction rolls back
                /\ Finish(i, [op |-> "create", ok |-> FALSE, error |-> "ConstraintFailed"])
                /\ UNCHANGED <<users, loans, transactions, staking_pool, acct>>
           ELSE /\ loans' = Append(loans, NewLoan(loanId, u, o, ltv))
                /\ users' = [users EXCEPT
                       ![u] = [[@ EXCEPT ![BalanceColumn(o.collateralType)] = @ - o.collateralAmount]
                                  EXCEPT ![BalanceColumn(o.borrowedType)] = @ + o.borrowedAmount]]
                /\ transactions' = Append(transactions,
                       Tx(u, loanId, "borrow", o.borrowedType, o.borrowedAmount, "confirmed"))
                /\ staking_pool' = IF o.collateralType = "XEC"
                                   THEN addToStakingPool(staking_pool, o.collateralAmount)
                                   ELSE staking_pool
                /\ acct' = Append(acct, [coll_in |-> o.collateralAmount, coll_out |-> 0,
                                         borrowed_out |-> o.borrowedAmount, repaid |-> 0,
                                         interest |-> 0])
                /\ Finish(i, [op |-> "create", ok |-> TRUE, error |-> ""])
    /\ emitted' = <<>>
    /\ UNCHANGED <<margin_calls, now, exact, mode, budget, bus, oracle>>
    /\ saved' = IF last'.ok THEN Ledger' ELSE saved

----------------------------------------------------------------------------
(* Repayment: POST /loans/:id/repay, repayLoan (no await inside) *)

\* A variant that pays the principal first.
PartialRepayPrincipalFirst(loan, actualRepay) ==
    IF actualRepay >= loan.borrowed_amount
    THEN [newInterest |-> loan.accrued_interest - (actualRepay - loan.borrowed_amount),
          newPrincipal |-> 0]
    ELSE [newInterest |-> loan.accrued_interest,
          newPrincipal |-> loan.borrowed_amount - actualRepay]

\* Interest first, then principal.
PartialRepay(loan, actualRepay) ==
    IF actualRepay >= loan.accrued_interest
    THEN [newInterest |-> 0,
          newPrincipal |-> loan.borrowed_amount - (actualRepay - loan.accrued_interest)]
    ELSE [newInterest |-> loan.accrued_interest - actualRepay,
          newPrincipal |-> loan.borrowed_amount]

\* A variant of the guards without the test of the owner.
LoanGuardWithoutOwner(loanId, userId) ==
    IF loanId > Len(loans) THEN "Loan not found"
    ELSE IF Closed(loans[loanId].status) THEN "Loan is already closed"
    ELSE ""

\* The guards shared by repayLoan and addCollateral: "" when the call may go on.
LoanGuard(loanId, userId) ==
    IF loanId > Len(loans) THEN "Loan not found"
    ELSE IF loans[loanId].user_id # userId THEN "Unauthorized"
    ELSE IF Closed(loans[loanId].status) THEN "Loan is already closed"
    ELSE ""

\* A variant that keeps the liquidation fee on the collateral paid back.
RepayCollateralReturnLessFee(loan) ==
    loan.collateral_amount - (loan.collateral_amount * FeeNum) \div FeeDen

\* The collateral a full repayment pays back.
RepayCollateralReturn(loan) == loan.collateral_amount

RepayLoan(loanId, repayAmount, userId) ==
    /\ CanStart
    /\ budget' = budget - 1
    /\ emitted' = <<>>
    /\ IF LoanGuard(loanId, userId) # ""
       THEN /\ last' = [op |-> "repay", ok |-> FALSE, error |-> LoanGuard(loanId, userId)]
            /\ UNCHANGED <<users, loans, transactions, acct>>
       ELSE LET loan == loans[loanId]
                totalDebt == loan.borrowed_amount + loan.accrued_interest
                actualRepay == Min(repayAmount, totalDebt)
                remainingDebt == totalDebt - actualRepay
                isFullyRepaid == remainingDebt <= 0
                debited == [users EXCEPT
                               ![userId][BalanceColumn(loan.borrowed_type)] = @ - actualRepay]
                part == PartialRepay(loan, actualRepay)
            IN  /\ IF isFullyRepaid
                   THEN /\ users' = [debited EXCEPT
                               ![userId][BalanceColumn(loan.collateral_type)] =
                                   @ + RepayCollateralReturn(loan)]
                        /\ loans' = [loans EXCEPT ![loanId] =
                               [@ EXCEPT !.status = "repaid", !.borrowed_amount = 0,
                                         !.accrued_interest = 0, !.current_ltv = Frac(0, 1),
                                         !.closed_at = now, !.updated_at = now]]
                        /\ acct' = [acct EXCEPT ![loanId] =
                               [@ EXCEPT !.coll_out = @ + RepayCollateralReturn(loan),
                                         !.repaid = @ + actualRepay]]
                   ELSE /\ users' = debited
                        /\ loans' = [loans EXCEPT ![loanId] =
                               [@ EXCEPT !.borrowed_amount = part.newPrincipal,
                                         !.accrued_interest = part.newInterest,
                                         !.updated_at = now]]
                        /\ acct' = [acct EXCEPT ![loanId].repaid = @ + actualRepay]
                /\ transactions' = Append(transactions,
                       Tx(userId, loanId, "repay", loan.borrowed_type, actualRepay, "confirmed"))
                /\ last' = [op |-> "repay", ok |-> TRUE, error |-> "",
                            remainingDebt |-> remainingDebt, isFullyRepaid |-> isFullyRepaid]
    /\ UNCHANGED <<margin_calls, staking_pool, now, tasks, exact, mode, bus, oracle>>
    /\ saved' = IF last'.ok THEN Ledger' ELSE saved

\* Repayments a client may ask for: part of the interest, the interest, the
\* interest and a slice of the principal, the whole debt, more than the debt.
\* Parts and slices are such that a tick's interest and a later liquidation
\* stay whole numbers: an XEC debt (FIRMA collateral, which a liquidation may
\* sell in part) is paid in fifties and its principal only as a whole.
RepayAmounts(loanId) ==
    IF loanId > Len(loans) THEN {1}
    ELSE LET loan == loans[loanId]
             debt == loan.borrowed_amount + loan.accrued_interest
         IN  IF loan.borrowed_type = "XEC"
             THEN {a \in {50, loan.accrued_interest, debt, debt + 1} :
                     a > 0 /\ (a <= loan.accrued_interest \/ a >= debt)}
             ELSE {a \in {1, loan.accrued_interest, loan.accrued_interest + 200, debt, debt + 1} :
                     /\ a > 0
                     /\ \/ a < loan.accrued_interest
                        \/ a >= debt
                        \/ (a - loan.accrued_interest) % 200 = 0}

----------------------------------------------------------------------------
(* Adding collateral: POST /loans/:id/add-collateral, addCollateral *)

\* addCollateral up to its first await: the loan is read and the guards run.
AddCollateralRequest(loanId, amount, userId) ==
    /\ CanStart
    /\ budget' = budget - 1
    /\ IF LoanGuard(loanId, userId) # ""
       THEN /\ last' = [op |-> "add_collateral", ok |-> FALSE, error |-> LoanGuard(loanId, userId)]
            /\ emitted' = <<>>
            /\ UNCHANGED tasks
       ELSE /\ tasks' = Append(tasks, [kind |-> "add_collateral", userId |-> userId,
                                       amount |-> amount, loan |-> loans[loanId]])
            /\ UNCHANGED <<last, emitted>>
    /\ UNCHANGED <<users, loans, transactions, margin_calls, staking_pool, now,
                   acct, exact, mode, bus, oracle>>
    /\ UNCHANGED saved

\* A variant that also lifts a margin call at exactly MARGIN_CALL_LTV.
AddCollateralStatusAtMost(loan, newLTV) ==
    IF FracLE(newLTV, MARGIN_CALL_LTV) THEN "active" ELSE loan.status

\* The status addCollateral writes.
AddCollateralStatus(loan, newLTV) ==
    IF FracLT(newLTV, MARGIN_CALL_LTV) THEN "active" ELSE loan.status

\* addCollateral from the oracle's answer on: the transaction writes what was
\* computed from the loan as read before the await; then the route's addToStakingPool.
AddCollateralResume(i, xec) ==
    /\ i \in 1..Len(tasks)
    /\ tasks[i].kind = "add_collateral"
    /\ LET loan == tasks[i].loan
           userId == tasks[i].userId
           amount == tasks[i].amount
           newCollateralAmount == loan.collateral_amount + amount
           newLTV == calculateLTV(loan.borrowed_type, loan.borrowed_amount,
                                  loan.accrued_interest, loan.collateral_type,
                                  newCollateralAmount, xec)
       IN  /\ users' = [users EXCEPT ![userId][BalanceColumn(loan.collateral_type)] = @ - amount]
           /\ loans' = [loans EXCEPT ![loan.id] =
                  [@ EXCEPT !.collateral_amount = newCollateralAmount,
                            !.current_ltv = newLTV,
                            !.status = AddCollateralStatus(loan, newLTV),
                            !.updated_at = now]]
           /\ transactions' = Append(transactions,
                  Tx(userId, loan.id, "add_collateral", loan.collateral_type, amount, "confirmed"))
           /\ staking_pool' = IF loan.collateral_type = "XEC"
                              THEN addToStakingPool(staking_pool, amount)
                              ELSE staking_pool
           /\ acct' = [acct EXCEPT ![loan.id].coll_in = @ + amount]
           /\ Finish(i, [op |-> "add_collateral", ok |-> TRUE, error |-> ""])
           /\ emitted' = <<broadcastLTVUpdate(userId, loan.id, newLTV)>>
    /\ UNCHANGED <<margin_calls, now, exact, mode, budget, bus, oracle>>
    /\ saved' = Ledger'

----------------------------------------------------------------------------
(* Scheduler: update of all LTVs (every minute) *)

\* getActiveLoans
getActiveLoans == SelectSeq(loans, LAMBDA l : l.status = "active")

\* triggerMarginCall: the margin_calls row and the status it sets
MarginCallRow(loan, ltv) ==
    [loan_id |-> loan.id, ltv_at_alert |-> ltv,
     alert_type |-> IF FracGE(ltv, CriticalLTV) THEN "critical" ELSE "warning"]

\* A variant that calls the margin only above MARGIN_CALL_LTV.
NewStatusAbove(oldStatus, newLTV) ==
    IF FracGE(newLTV, LIQUIDATION_LTV) THEN oldStatus
    ELSE IF FracGT(newLTV, MARGIN_CALL_LTV) THEN "margin_call"
    ELSE IF oldStatus = "margin_call" THEN "active"
    ELSE oldStatus

\* The status updateAllLTVs writes for a loan it read with status oldStatus.
NewStatus(oldStatus, newLTV) ==
    IF FracGE(newLTV, LIQUIDATION_LTV) THEN oldStatus
    ELSE IF FracGE(newLTV, MARGIN_CALL_LTV) THEN "margin_call"
    ELSE IF oldStatus = "margin_call" THEN "active"
    ELSE oldStatus

\* A tick's loop ends when its list is used up; xecs keeps the oracle's answers
\* of the passes made so far (history).
\* A variant in which a caught error ends the run.
AdvanceUntilError(i, xec, caught) ==
    tasks' = IF Len(tasks[i].queue) = 1 \/ caught > tasks[i].caught THEN RemoveAt(tasks, i)
             ELSE [tasks EXCEPT ![i].queue = Tail(@), ![i].xecs = @ \cup {xec}]

\* The loop moves on; `caught` counts the errors the run has caught and logged.
AdvanceCaught(i, xec, caught) ==
    tasks' = IF Len(tasks[i].queue) = 1 THEN RemoveAt(tasks, i)
             ELSE [tasks EXCEPT ![i].queue = Tail(@), ![i].xecs = @ \cup {xec},
                                ![i].caught = caught]

Advance(i, xec) == AdvanceCaught(i, xec, tasks[i].caught)

\* A tick reads its list of loans once, then handles one loan per resumption.
StartTick(kind, queue) ==
    /\ CanStart
    /\ budget' = budget - 1
    /\ tasks' = IF queue = <<>> THEN tasks ELSE Append(tasks, [kind |-> kind, queue |-> queue, xecs |-> {}, caught |-> 0])
    /\ last' = IF queue = <<>> THEN [op |-> kind, ok |-> TRUE, error |-> ""] ELSE last
    /\ emitted' = IF queue = <<>> THEN <<>> ELSE emitted
    /\ UNCHANGED <<users, loans, transactions, margin_calls, staking_pool, now,
                   acct, exact, mode, bus, oracle>>
    /\ UNCHANGED saved

UpdateAllLTVsStart == StartTick("update_ltvs", getActiveLoans)

\* One pass of updateAllLTVs' loop, from calculateLTV's answer to the next await.
UpdateAllLTVsStep(i, xec) ==
    /\ i \in 1..Len(tasks)
    /\ tasks[i].kind = "update_ltvs"
    /\ LET loan == Head(tasks[i].queue)
           newLTV == calculateLTV(loan.borrowed_type, loan.borrowed_amount,
                                  loan.accrued_interest, loan.collateral_type,
                                  loan.collateral_amount, xec)
           oldStatus == loan.status
           newStatus == NewStatus(oldStatus, newLTV)
           entered == newStatus = "margin_call" /\ oldStatus # "margin_call"
       IN  /\ loans' = [loans EXCEPT ![loan.id] =
                  [@ EXCEPT !.current_ltv = newLTV, !.status = newStatus, !.updated_at = now]]
           /\ margin_calls' = IF entered THEN Append(margin_calls, MarginCallRow(loan, newLTV))
                              ELSE margin_calls
           /\ emitted' = <<broadcastLTVUpdate(loan.user_id, loan.id, newLTV)>> \o
                             (IF entered
                              THEN <<broadcastMarginCall(loan.user_id, loan.id, newLTV)>>
                              ELSE <<>>)
    /\ Advance(i, xec)
    /\ last' = [op |-> "update_ltvs", ok |-> TRUE, error |-> ""]
    /\ UNCHANGED <<users, transactions, staking_pool, now, acct, exact, mode, budget, bus, oracle>>
    /\ saved' = Ledger'

----------------------------------------------------------------------------
(* Scheduler: interest accrual (every hour) *)

\* A variant that counts an hour that has only begun.
HoursElapsedRoundedUp(then) == (now - then + 1) * HoursPerTick

\* getHoursElapsed, floored
HoursElapsed(then) == (now - then) * HoursPerTick

\* The timestamp accrueInterest measures from.
AccrualBase(loan) == loan.updated_at

AccrueInterestStart == StartTick("accrue", getActiveLoans)

\* accrueInterest on the next loan of the hourly tick's list.
AccrueInterestStep(i, xec) ==
    /\ i \in 1..Len(tasks)
    /\ tasks[i].kind = "accrue"
    /\ LET loan == Head(tasks[i].queue)
           h == HoursElapsed(AccrualBase(loan))
           product == loan.borrowed_amount * RateNum * h
           interestAmount == product \div RateDen
           newAccruedInterest == loan.accrued_interest + interestAmount
           newLTV == calculateLTV(loan.borrowed_type, loan.borrowed_amount,
                                  newAccruedInterest, loan.collateral_type,
                                  loan.collateral_amount, xec)
           inBand == FracGE(newLTV, MARGIN_CALL_LTV) /\ FracLT(newLTV, LIQUIDATION_LTV)
       IN  IF h < 1
           THEN /\ emitted' = <<>>
                /\ UNCHANGED <<loans, margin_calls, acct, exact>>
           ELSE /\ loans' = [loans EXCEPT ![loan.id] =
                       [@ EXCEPT !.accrued_interest = newAccruedInterest,
                                 !.current_ltv = newLTV,
                                 !.last_interest_update = now,
                                 !.updated_at = now,
                                 !.status = IF inBand THEN "margin_call" ELSE @]]
                /\ margin_calls' = IF inBand THEN Append(margin_calls, MarginCallRow(loan, newLTV))
                                   ELSE margin_calls
                /\ acct' = [acct EXCEPT ![loan.id].interest = @ + interestAmount]
                /\ exact' = (exact /\ product % RateDen = 0)
                /\ emitted' = <<broadcastLTVUpdate(loan.user_id, loan.id, newLTV)>> \o
                                  (IF inBand
                                   THEN <<broadcastMarginCall(loan.user_id, loan.id, newLTV)>>
                                   ELSE <<>>)
    /\ Advance(i, xec)
    /\ last' = [op |-> "accrue", ok |-> TRUE, error |-> "",
                accrued |-> HoursElapsed(AccrualBase(Head(tasks[i].queue))) >= 1]
    /\ UNCHANGED <<users, transactions, staking_pool, now, mode, budget, bus, oracle>>
    /\ saved' = IF last'.accrued THEN Ledger' ELSE saved

----------------------------------------------------------------------------
(* Scheduler: liquidation scan (every minute) *)

ScanQueue == SelectSeq(loans, LAMBDA l : l.status \in {"active", "margin_call"})

ScanAndLiquidateStart == StartTick("scan", ScanQueue)

\* A variant that recovers the debt without the liquidation fee.
LiquidationWithoutFee(loan, xec) ==
    LET totalDebt == loan.borrowed_amount + loan.accrued_interest
        num == toUSD(loan.borrowed_type, totalDebt, xec)
        den == getPrice(loan.collateral_type, xec)
        capped == IF den = 0 THEN num > 0 ELSE num >= loan.collateral_amount * den
        isNaN == den = 0 /\ num = 0
        collateralToSell == IF capped THEN loan.collateral_amount
                            ELSE IF isNaN THEN 0 ELSE num \div den
    IN  [collateralToSell |-> collateralToSell,
         collateralReturned |-> Max(0, loan.collateral_amount - collateralToSell),
         totalDebt |-> totalDebt,
         isNaN |-> isNaN,
         isExact |-> capped \/ isNaN \/ (den # 0 /\ num % den = 0)]

\* liquidateLoan's amounts: totalToRecoverUSD / collateralPrice as num / den.
\* 0 / 0 is NaN: Math.min and Math.max hand it on, the INSERT binds it as NULL
\* into a NOT NULL column and the transaction rolls back.
Liquidation(loan, xec) ==
    LET totalDebt == loan.borrowed_amount + loan.accrued_interest
        debtValueUSD == toUSD(loan.borrowed_type, totalDebt, xec)
        num == debtValueUSD * (FeeDen + FeeNum)
        den == FeeDen * getPrice(loan.collateral_type, xec)
        capped == IF den = 0 THEN num > 0 ELSE num >= loan.collateral_amount * den
        isNaN == den = 0 /\ num = 0
        collateralToSell == IF capped THEN loan.collateral_amount
                            ELSE IF isNaN THEN 0 ELSE num \div den
    IN  [collateralToSell |-> collateralToSell,
         collateralReturned |-> Max(0, loan.collateral_amount - collateralToSell),
         totalDebt |-> totalDebt,
         isNaN |-> isNaN,
         isExact |-> capped \/ isNaN \/ (den # 0 /\ num % den = 0)]

\* A variant that spares a loan at exactly LIQUIDATION_LTV.
ShouldLiquidateAbove(currentLTV) == FracGT(currentLTV, LIQUIDATION_LTV)

ShouldLiquidate(currentLTV) == FracGE(currentLTV, LIQUIDATION_LTV)

\* One pass of scanAndLiquidate's loop: the LTV of the loan as read, and
\* liquidateLoan when it is at or over the threshold.
ScanAndLiquidateStep(i, xec) ==
    /\ i \in 1..Len(tasks)
    /\ tasks[i].kind = "scan"
    /\ LET loan == Head(tasks[i].queue)
           currentLTV == calculateLTV(loan.borrowed_type, loan.borrowed_amount,
                                      loan.accrued_interest, loan.collateral_type,
                                      loan.collateral_amount, xec)
           liq == Liquidation(loan, xec)
       IN  IF ShouldLiquidate(currentLTV) /\ ~liq.isNaN
           THEN /\ loans' = [loans EXCEPT ![loan.id] =
                       [@ EXCEPT !.status = "liquidated", !.collateral_amount = 0,
                                 !.borrowed_amount = 0, !.accrued_interest = 0,
                                 !.current_ltv = Frac(0, 1), !.closed_at = now,
                                 !.updated_at = now]]
                /\ users' = IF liq.collateralReturned > 0
                            THEN [users EXCEPT
                                    ![loan.user_id][BalanceColumn(loan.collateral_type)] =
                                        @ + liq.collateralReturned]
                            ELSE users
                /\ transactions' = Append(transactions,
                       Tx(loan.user_id, loan.id, "liquidation", loan.collateral_type,
                          liq.collateralToSell, "confirmed"))
                /\ acct' = [acct EXCEPT ![loan.id].coll_out = @ + liq.collateralReturned]
                /\ exact' = (exact /\ liq.isExact)
                /\ last' = [op |-> "liquidate", ok |-> TRUE, error |-> "",
                            caught |-> tasks[i].caught]
                /\ emitted' = <<broadcastLiquidation(loan.user_id, loan.id,
                                     liq.collateralToSell, liq.totalDebt, liq.collateralReturned)>>
           ELSE /\ UNCHANGED <<loans, users, transactions, acct, exact>>
                /\ emitted' = <<>>
                /\ last' = [op |-> "scan", ok |-> ~ShouldLiquidate(currentLTV),
                            error |-> IF ShouldLiquidate(currentLTV)
                                      THEN "Failed to liquidate" ELSE "",
                            caught |-> tasks[i].caught +
                                       (IF ShouldLiquidate(currentLTV) THEN 1 ELSE 0)]
    /\ AdvanceCaught(i, xec, last'.caught)
    /\ UNCHANGED <<margin_calls, staking_pool, now, mode, budget, bus, oracle>>
    /\ saved' = IF last'.op = "liquidate" THEN Ledger'
                ELSE IF last'.ok THEN saved
                ELSE \* the UPDATE that closes the loan was saved before the INSERT failed
                     [Ledger EXCEPT !.loans[Head(tasks[i].queue).id] =
                         [@ EXCEPT !.status = "liquidated", !.collateral_amount = 0,
                                   !.borrowed_amount = 0, !.accrued_interest = 0,
                                   !.current_ltv = Frac(0, 1), !.closed_at = now,
                                   !.updated_at = now]]

----------------------------------------------------------------------------
(* Staking pool: distributeStakingRewards (no await inside) *)

\* SELECT * FROM loans WHERE status IN ('active', 'margin_call') AND collateral_type = 'XEC'
xecLoans ==
    {i \in 1..Len(loans) : /\ loans[i].status \in {"active", "margin_call"}
                           /\ loans[i].collateral_type = "XEC"}

RECURSIVE SumOver(_, _)
SumOver(S, f) ==
    IF S = {} THEN 0
    ELSE LET i == CHOOSE j \in S : TRUE IN f[i] + SumOver(S \ {i}, f)

\* xecLoans.reduce((sum, l) => sum + l.collateral_amount, 0)
totalUserCollateral == SumOver(xecLoans, [i \in xecLoans |-> loans[i].collateral_amount])

\* pool.total_xecx * ESTIMATED_DAILY_YIELD_RATE, in reward units
dailyReward == staking_pool.total_xecx * YieldNum * (RewardUnit \div YieldDen)

\* a / b for b # 0
Quot(a, b) == IF b < 0 THEN (-a) \div (-b) ELSE a \div b

Divides(b, a) == IF b < 0 THEN a % (-b) = 0 ELSE a % b = 0

\* A variant that takes a loan's share of the whole pool.
LoanRewardOfPool(collateral_amount) ==
    Quot(dailyReward * collateral_amount, staking_pool.total_xecx)

\* dailyReward * (loan.collateral_amount / totalUserCollateral)
LoanReward(collateral_amount) == Quot(dailyReward * collateral_amount, totalUserCollateral)

\* The loans that put their owner into userRewards: a Map keeps its keys in the
\* order of their first insertion.
firstLoans ==
    SelectSeq([i \in 1..Len(loans) |-> i],
              LAMBDA i : /\ i \in xecLoans
                         /\ \A j \in xecLoans : loans[j].user_id = loans[i].user_id => j >= i)

\* userRewards.get(userId) after the loop over the loans
userReward(u) ==
    LET mine == {i \in xecLoans : loans[i].user_id = u}
    IN  SumOver(mine, [i \in mine |-> LoanReward(loans[i].collateral_amount)])

\* With a collateral sum of 0 a share is 0/0 = NaN or a signed Infinity. A user
\* whose rewards hold a NaN, or Infinities of both signs, is rewarded NaN.
RewardIsNaN(u) ==
    LET mine == {i \in xecLoans : loans[i].user_id = u}
    IN  /\ totalUserCollateral = 0
        /\ \/ \E i \in mine : loans[i].collateral_amount = 0
           \/ \E i, j \in mine : loans[i].collateral_amount < 0 /\ loans[j].collateral_amount > 0

distributeStakingRewards ==
    /\ CanStart
    /\ budget' = budget - 1
    /\ LET recipients == [k \in 1..Len(firstLoans) |-> loans[firstLoans[k]].user_id]
       IN  IF xecLoans = {}
           THEN /\ last' = [op |-> "distribute", ok |-> TRUE, error |-> "",
                            totalDistributed |-> 0, recipientCount |-> 0]
                /\ emitted' = <<>>
                /\ UNCHANGED <<users, loans, transactions, staking_pool, exact>>
           ELSE IF totalUserCollateral = 0
           THEN \* NaN is bound as NULL: transactions.amount NOT NULL fails, the
                \* transaction rolls back and the error leaves the function, after the
                \* UPDATEs of the loans and of the first user were saved with NULL.
                \* Rewards that are Infinities would be stored: not numbers of the model.
                /\ \E k \in 1..Len(recipients) : RewardIsNaN(recipients[k])
                /\ \A i \in xecLoans : loans[i].collateral_amount = 0
                /\ last' = [op |-> "distribute", ok |-> FALSE, error |-> "ConstraintFailed"]
                /\ emitted' = <<>>
                /\ UNCHANGED <<users, loans, transactions, staking_pool, exact>>
           ELSE /\ loans' = [i \in 1..Len(loans) |->
                       IF i \in xecLoans
                       THEN [loans[i] EXCEPT !.staking_yield_earned =
                                @ + LoanReward(loans[i].collateral_amount)]
                       ELSE loans[i]]
                /\ users' = [u \in Users |->
                       IF \E i \in xecLoans : loans[i].user_id = u
                       THEN [users[u] EXCEPT !.staking_rewards_earned = @ + userReward(u)]
                       ELSE users[u]]
                /\ transactions' = transactions \o
                       [k \in 1..Len(recipients) |->
                           Tx(recipients[k], NULL, "staking_reward", "XEC",
                              userReward(recipients[k]), "confirmed")]
                /\ staking_pool' = [staking_pool EXCEPT
                       !.last_reward_distribution = now,
                       !.total_rewards_distributed = @ +
                           SumOver(xecLoans, [i \in xecLoans |->
                                                 LoanReward(loans[i].collateral_amount)])]
                /\ exact' = (exact /\ \A i \in xecLoans :
                                 Divides(totalUserCollateral,
                                         dailyReward * loans[i].collateral_amount))
                /\ last' = [op |-> "distribute", ok |-> TRUE, error |-> "",
                            totalDistributed |->
                                SumOver(xecLoans, [i \in xecLoans |->
                                                      LoanReward(loans[i].collateral_amount)]),
                            recipientCount |-> Len(recipients)]
                /\ emitted' = [k \in 1..Len(recipients) |->
                       [userId |-> recipients[k], event |-> "staking:reward",
                        data |-> [amount |-> userReward(recipients[k])]]]
    /\ UNCHANGED <<margin_calls, now, tasks, acct, mode, bus, oracle>>
    /\ saved' = IF last'.ok
                THEN (IF xecLoans = {} THEN saved ELSE Ledger')
                ELSE [Ledger EXCEPT
                        !.loans = [i \in 1..Len(loans) |->
                                     IF i \in xecLoans
                                     THEN [loans[i] EXCEPT !.staking_yield_earned = NULL]
                                     ELSE loans[i]],
                        !.users[loans[firstLoans[1]].user_id].staking_rewards_earned = NULL]

----------------------------------------------------------------------------
(* Websocket bus: initWebSocket and broadcastToUser *)

ledger == <<users, loans, transactions, margin_calls, staking_pool, now, tasks,
            last, acct, exact, mode, emitted, saved, oracle>>

\* wss.on('connection'): a new channel, open and not attached to any user
OnConnection(c) ==
    /\ sockets[c].readyState = "CONNECTING"
    /\ sockets' = [sockets EXCEPT ![c].readyState = "OPEN"]
    /\ UNCHANGED <<userConnections, inbox, budget, ledger>>

\* ws.on('message') with {type: 'auth', userId}: the handler's userId is set, the
\* channel is added to the user's set (and stays in the set of a user it
\* authenticated as before), and auth:success is sent back.
OnAuthMessage(c, userId) ==
    /\ budget > 0
    /\ budget' = budget - 1
    /\ sockets[c].readyState = "OPEN"
    /\ sockets' = [sockets EXCEPT ![c].userId = userId, ![c].authed = @ \cup {userId}]
    /\ userConnections' = [userConnections EXCEPT ![userId] = @ \cup {c}]
    /\ inbox' = [inbox EXCEPT ![c] = Append(@, [type |-> "auth:success"])]
    /\ UNCHANGED ledger

\* A close handshake begins: the channel is no longer OPEN, 'close' has not fired.
BeginClose(c) ==
    /\ sockets[c].readyState = "OPEN"
    /\ sockets' = [sockets EXCEPT ![c].readyState = "CLOSING"]
    /\ UNCHANGED <<userConnections, inbox, budget, ledger>>

\* ws.on('close'): the channel leaves the set of the handler's userId
OnClose(c) ==
    /\ sockets[c].readyState \in {"OPEN", "CLOSING"}
    /\ sockets' = [sockets EXCEPT ![c].readyState = "CLOSED"]
    /\ userConnections' = IF sockets[c].userId # NoUser
                          THEN [userConnections EXCEPT ![sockets[c].userId] = @ \ {c}]
                          ELSE userConnections
    /\ UNCHANGED <<inbox, budget, ledger>>

\* A variant that writes to every channel of the user's set.
SendsToAny(c) == TRUE

\* ws.readyState === WebSocket.OPEN
SendsTo(c) == sockets[c].readyState = "OPEN"

\* broadcastToUser: one frame to each open channel of the user's set. Of the
\* frame {type, data, timestamp} the type is kept.
broadcastToUser(userId, event) ==
    /\ budget > 0
    /\ budget' = budget - 1
    /\ inbox' = [c \in Channels |->
                    IF c \in userConnections[userId] /\ SendsTo(c)
                    THEN Append(inbox[c], [type |-> event])
                    ELSE inbox[c]]
    /\ UNCHANGED <<userConnections, sockets, ledger>>

----------------------------------------------------------------------------
(* Environment *)

\* Time passes.
ClockTick ==
    /\ EnvCanMove
    /\ now < MaxTime
    /\ now' = now + 1
    /\ UNCHANGED <<last, emitted>>
    /\ UNCHANGED <<users, loans, transactions, margin_calls, staking_pool, tasks,
                   acct, exact, mode, budget, bus, oracle>>
    /\ UNCHANGED saved

----------------------------------------------------------------------------
(* Specifications *)

Next ==
    \/ \E u \in Depositors, a \in {"XEC", "FIRMA"} : \E x \in DepositAmounts(a) : Deposit(u, a, x)
    \/ \E u \in Depositors, x \in WithdrawAmounts : WithdrawFirma(u, x)
    \/ \E u \in Depositors, o \in Offers : CreateLoanRequest(u, o)
    \/ \E i \in 1..MaxInFlight, p \in Prices : CreateLoanResume(i, p)
    \/ \E l \in LoanIds, u \in Users : \E x \in RepayAmounts(l) : RepayLoan(l, x, u)
    \/ \E l \in LoanIds, u \in Users :
          \E x \in AddAmounts(IF l > Len(loans) THEN "XEC" ELSE loans[l].collateral_type) :
              AddCollateralRequest(l, x, u)
    \/ \E i \in 1..MaxInFlight, p \in Prices : AddCollateralResume(i, p)
    \/ UpdateAllLTVsStart
    \/ \E i \in 1..MaxInFlight, p \in Prices : UpdateAllLTVsStep(i, p)
    \/ AccrueInterestStart
    \/ \E i \in 1..MaxInFlight, p \in Prices : AccrueInterestStep(i, p)
    \/ ScanAndLiquidateStart
    \/ \E i \in 1..MaxInFlight, p \in Prices : ScanAndLiquidateStep(i, p)
    \/ ClockTick

\* Handlers run one at a time, each to its end.
Spec == Init /\ [][Next]_vars

\* Handlers interleave at their awaits.
SpecInterleaved == InitInterleaved /\ [][Next]_vars

\* The loan engine and the scheduler alone, under a feed that moves through the
\* margin band: well-formed requests by the funded user, handlers one at a time.
NextRisk ==
    \/ \E u \in Depositors, o \in RiskOffers : CreateLoanRequest(u, o)
    \/ \E i \in 1..MaxInFlight, p \in RiskPrices : CreateLoanResume(i, p)
    \/ \E l \in LoanIds, u \in Depositors : \E x \in RepayAmounts(l) : RepayLoan(l, x, u)
    \/ \E l \in LoanIds, u \in Depositors :
          \E x \in AddAmounts(IF l > Len(loans) THEN "XEC" ELSE loans[l].collateral_type) :
              AddCollateralRequest(l, x, u)
    \/ \E i \in 1..MaxInFlight, p \in RiskPrices : AddCollateralResume(i, p)
    \/ UpdateAllLTVsStart
    \/ \E i \in 1..MaxInFlight, p \in RiskPrices : UpdateAllLTVsStep(i, p)
    \/ AccrueInterestStart
    \/ \E i \in 1..MaxInFlight, p \in RiskPrices : AccrueInterestStep(i, p)
    \/ ScanAndLiquidateStart
    \/ \E i \in 1..MaxInFlight, p \in RiskPrices : ScanAndLiquidateStep(i, p)
    \/ ClockTick

SpecRisk == Init /\ [][NextRisk]_vars

\* The same, with handlers that interleave at their awaits.
SpecRiskInterleaved == InitInterleaved /\ [][NextRisk]_vars

\* The same requests and ticks with deposits and the staking distributor: every
\* handler that notifies.
NextNotify ==
    \/ NextRisk
    \/ \E u \in Depositors, a \in {"XEC", "FIRMA"} : \E x \in DepositAmounts(a) : Deposit(u, a, x)
    \/ distributeStakingRewards

SpecNotify == Init /\ [][NextNotify]_vars

\* calculateLTV applied to an open loan under a price the feed may answer later:
\* a third below and a half above the prices loans are opened at.
LtvPrices == AnyPrice \cup {30, 101}

LtvOffers == {o \in Offers : o.collateralAmount > 0}

\* GET /loans/:id: the loan is read, and its LTV computed, from the oracle's
\* answer on; nothing is written.
GetLoan(l, xec) ==
    /\ tasks = <<>>
    /\ last' = IF l > Len(loans)
               THEN [op |-> "get_loan", ok |-> FALSE, error |-> "Loan not found"]
               ELSE [op |-> "get_loan", ok |-> TRUE, error |-> "", loanId |-> l,
                     currentLTV |->
                         calculateLTV(loans[l].borrowed_type, loans[l].borrowed_amount,
                                      loans[l].accrued_interest, loans[l].collateral_type,
                                      loans[l].collateral_amount, xec)]
    /\ emitted' = <<>>
    /\ UNCHANGED <<users, loans, transactions, margin_calls, staking_pool, now, tasks,
                   acct, exact, mode, budget, bus, oracle>>
    /\ UNCHANGED saved

NextLtv ==
    \/ \E u \in Depositors, o \in LtvOffers : CreateLoanRequest(u, o)
    \/ \E i \in 1..MaxInFlight, p \in RiskPrices : CreateLoanResume(i, p)
    \/ UpdateAllLTVsStart
    \/ \E i \in 1..MaxInFlight, p \in RiskPrices : UpdateAllLTVsStep(i, p)
    \/ AccrueInterestStart
    \/ \E i \in 1..MaxInFlight, p \in RiskPrices : AccrueInterestStep(i, p)
    \/ \E l \in LoanIds, p \in LtvPrices : GetLoan(l, p)
    \/ ClockTick

SpecLtv == Init /\ [][NextLtv]_vars

\* A feed that may collapse to 0, and loans whose collateral it prices: FIRMA
\* borrowed against XEC, and XEC borrowed against XEC or XECX (staked XEC,
\* priced as XEC).
CollapseOffers == {
    [collateralType |-> "XEC", collateralAmount |-> 400,
     borrowedType |-> "FIRMA", borrowedAmount |-> 13000],
    [collateralType |-> "XEC", collateralAmount |-> 400,
     borrowedType |-> "XEC", borrowedAmount |-> 200],
    [collateralType |-> "XECX", collateralAmount |-> 400,
     borrowedType |-> "XEC", borrowedAmount |-> 200] }

NextCollapse ==
    \/ \E u \in Depositors, o \in CollapseOffers : CreateLoanRequest(u, o)
    \/ \E i \in 1..MaxInFlight, p \in Prices : CreateLoanResume(i, p)
    \/ AccrueInterestStart
    \/ \E i \in 1..MaxInFlight, p \in Prices : AccrueInterestStep(i, p)
    \/ ScanAndLiquidateStart
    \/ \E i \in 1..MaxInFlight, p \in Prices : ScanAndLiquidateStep(i, p)
    \/ ClockTick

SpecCollapse == Init /\ [][NextCollapse]_vars

\* The XEC-collateral book and the staking distributor: two users who hold XEC
\* (u1 after two deposits of 400, u2 after one), a steady feed, and
\* add-collateral requests of either sign.
StakingOffers == {o \in Offers : o.collateralType = "XEC" /\ o.collateralAmount > 0}

StakingAddAmounts == {400, -400}

StakingPrices == {65}

InitStaking ==
    /\ users = [u \in Users |->
                  [NoUserRow EXCEPT !.balance_xec = IF u = "u1" THEN 800 ELSE 400]]
    /\ loans = <<>>
    /\ transactions = <<Tx("u1", NULL, "deposit_xec", "XEC", 400, "confirmed"),
                        Tx("u1", NULL, "deposit_xec", "XEC", 400, "confirmed"),
                        Tx("u2", NULL, "deposit_xec", "XEC", 400, "confirmed")>>
    /\ margin_calls = <<>>
    /\ staking_pool = [platform_base_xecx |-> PlatformBase, user_contributed_xecx |-> 0,
                       total_xecx |-> PlatformBase, last_reward_distribution |-> NULL,
                       total_rewards_distributed |-> 0]
    /\ now = 1
    /\ tasks = <<>>
    /\ last = [op |-> "none", ok |-> TRUE, error |-> ""]
    /\ acct = <<>>
    /\ exact = TRUE
    /\ emitted = <<>>
    /\ InitBus
    /\ saved = Ledger
    /\ InitOracle
    /\ mode = "serial"
    /\ budget = MaxOps

NextStaking ==
    \/ \E u \in Users, o \in StakingOffers : CreateLoanRequest(u, o)
    \/ \E i \in 1..MaxInFlight, p \in StakingPrices : CreateLoanResume(i, p)
    \/ \E l \in LoanIds, u \in Users : \E x \in RepayAmounts(l) : RepayLoan(l, x, u)
    \/ \E l \in LoanIds, u \in Users, x \in StakingAddAmounts : AddCollateralRequest(l, x, u)
    \/ \E i \in 1..MaxInFlight, p \in StakingPrices : AddCollateralResume(i, p)
    \/ distributeStakingRewards
    \/ ClockTick

SpecStaking == InitStaking /\ [][NextStaking]_vars

\* The websocket bus alone: clients connect, authenticate and leave while
\* per-user events are broadcast.
NextBus ==
    \/ \E c \in Channels : OnConnection(c)
    \/ \E c \in Channels, u \in Users : OnAuthMessage(c, u)
    \/ \E c \in Channels : BeginClose(c)
    \/ \E c \in Channels : OnClose(c)
    \/ \E u \in Users, e \in Events : broadcastToUser(u, e)

SpecBus == Init /\ [][NextBus]_vars

\* The scheduler's ticks over a loan that cannot be liquidated (XEC borrowed
\* against XEC, at price 0) and one that can (FIRMA collateral, at price 83).
SweepOffers == {
    [collateralType |-> "XEC", collateralAmount |-> 400,
     borrowedType |-> "XEC", borrowedAmount |-> 200],
    [collateralType |-> "FIRMA", collateralAmount |-> 3000000,
     borrowedType |-> "XEC", borrowedAmount |-> 30000] }

NextSweep ==
    \/ \E u \in Depositors, o \in SweepOffers : CreateLoanRequest(u, o)
    \/ \E i \in 1..MaxInFlight, p \in Prices : CreateLoanResume(i, p)
    \/ UpdateAllLTVsStart
    \/ \E i \in 1..MaxInFlight, p \in Prices : UpdateAllLTVsStep(i, p)
    \/ AccrueInterestStart
    \/ \E i \in 1..MaxInFlight, p \in Prices : AccrueInterestStep(i, p)
    \/ ScanAndLiquidateStart
    \/ \E i \in 1..MaxInFlight, p \in Prices : ScanAndLiquidateStep(i, p)
    \/ ClockTick

SpecSweep == InitInterleaved /\ [][NextSweep]_vars

----------------------------------------------------------------------------
(* JavaScript numbers: IEEE 754 doubles, round to nearest, ties to even *)

\* Naturals beyond the checker's integers are little-endian sequences of limbs
\* below Limb, without a leading zero limb; zero is the empty sequence.
LimbBits == 15

Pow2(k) == <<1, 2, 4, 8, 16, 32, 64, 128, 256, 512, 1024, 2048, 4096, 8192, 16384, 32768>>[k + 1]

Limb == Pow2(LimbBits)

\* The number of bits of a limb
BitsOf(n) == CHOOSE b \in 0..LimbBits : IF b = 0 THEN n = 0 ELSE Pow2(b - 1) <= n /\ n < Pow2(b)

LimbAt(x, i) == IF 1 <= i /\ i <= Len(x) THEN x[i] ELSE 0

\* The sequence a function over 1..n is, with every limb worked out
Limbs(f) == SubSeq(f, 1, Len(f))

\* x without its leading zero limbs
Trim(x) ==
    LET used == {i \in 1..Len(x) : x[i] # 0}
    IN  IF used = {} THEN <<>>
        ELSE SubSeq(x, 1, CHOOSE i \in used : \A j \in used : j <= i)

Big(n) == Trim(<<n % Limb, (n \div Limb) % Limb, n \div (Limb * Limb)>>)

\* The number whose limb i is w[i] plus the carry, for w[i] <= 2 * Limb - 2: a
\* carry enters limb i when a lower limb overflows and all limbs between pass
\* the carry on.
Carried(w) ==
    Trim(Limbs([i \in 1..Len(w) + 1 |->
            LET carry == \E j \in 1..i - 1 :
                            /\ w[j] >= Limb
                            /\ \A k \in j + 1..i - 1 : w[k] >= Limb - 1
            IN  (LimbAt(w, i) + (IF carry THEN 1 ELSE 0)) % Limb]))

\* One pass of carries over limbs of any size below 2^30
Passed(v) == Limbs([i \in 1..Len(v) + 1 |-> (LimbAt(v, i) % Limb) + (LimbAt(v, i - 1) \div Limb)])

BigAdd(x, y) ==
    LET n == IF Len(x) > Len(y) THEN Len(x) ELSE Len(y)
    IN  Carried(Limbs([i \in 1..n |-> LimbAt(x, i) + LimbAt(y, i)]))

\* x - y for x >= y: a limb borrows when a lower limb falls below zero and all
\* limbs between are zero or borrow themselves.
BigSub(x, y) ==
    LET w == Limbs([i \in 1..Len(x) |-> x[i] - LimbAt(y, i)])
    IN  Trim(Limbs([i \in 1..Len(x) |->
                LET borrow == \E j \in 1..i - 1 :
                                 w[j] < 0 /\ \A k \in j + 1..i - 1 : w[k] <= 0
                IN  (w[i] - (IF borrow THEN 1 ELSE 0) + Limb) % Limb]))

BigLess(x, y) ==
    IF Len(x) # Len(y) THEN Len(x) < Len(y)
    ELSE \E i \in 1..Len(x) : x[i] < y[i] /\ \A k \in i + 1..Len(x) : x[k] = y[k]

\* x * k for a limb k
BigMulLimb(x, k) == Carried(Passed(Limbs([i \in 1..Len(x) + 1 |->
                        ((LimbAt(x, i) * k) % Limb) + ((LimbAt(x, i - 1) * k) \div Limb)])))

ShiftLimbs(x, n) == IF x = <<>> THEN x ELSE [i \in 1..n |-> 0] \o x

\* x * y for numbers of at most 4 limbs each: column c collects the low halves
\* of the limb products of weight c and the high halves of those of weight c - 1.
BigMul(x, y) ==
    LET prod(i, c) == LimbAt(x, i) * LimbAt(y, c + 1 - i)
        low(c) == (prod(1, c) % Limb) + (prod(2, c) % Limb) + (prod(3, c) % Limb)
                      + (prod(4, c) % Limb)
        high(c) == (prod(1, c) \div Limb) + (prod(2, c) \div Limb) + (prod(3, c) \div Limb)
                       + (prod(4, c) \div Limb)
    IN  Carried(Passed(Limbs([c \in 1..Len(x) + Len(y) |-> low(c) + high(c - 1)])))

BitLen(x) == IF x = <<>> THEN 0 ELSE LimbBits * (Len(x) - 1) + BitsOf(x[Len(x)])

\* bit i of x, the lowest being bit 1
Bit(x, i) == (LimbAt(x, (i - 1) \div LimbBits + 1) \div Pow2((i - 1) % LimbBits)) % 2

ShiftLeft(x, k) == BigMulLimb(ShiftLimbs(x, k \div LimbBits), Pow2(k % LimbBits))

\* floor(x / 2^k)
ShiftRight(x, k) ==
    LET drop == k \div LimbBits
        r == k % LimbBits
        rest == IF drop >= Len(x) THEN <<>> ELSE SubSeq(x, drop + 1, Len(x))
    IN  Trim(Limbs([i \in 1..Len(rest) |->
                 (rest[i] \div Pow2(r)) + (LimbAt(rest, i + 1) % Pow2(r)) * Pow2(LimbBits - r)]))

\* The digit of a long division: the estimate, lowered until digit * d fits in rr.
RECURSIVE DivDigit(_, _, _)
DivDigit(rr, d, estimate) ==
    IF BigLess(rr, BigMulLimb(d, estimate)) THEN DivDigit(rr, d, estimate - 1) ELSE estimate

\* One step of a long division by d, for a remainder r < d and a zero limb
\* brought down: the next digit and the next remainder. The top limb of d is
\* Limb / 2 or more, so that the estimate from the leading limbs is at most 2
\* too high.
DivStep(r, d) ==
    LET rr == ShiftLimbs(r, 1)
        leading == LimbAt(rr, Len(d) + 1) * Limb + LimbAt(rr, Len(d))
        estimate == leading \div d[Len(d)]
        digit == DivDigit(rr, d, IF estimate < Limb THEN estimate ELSE Limb - 1)
    IN  [digit |-> digit, r |-> BigSub(rr, BigMulLimb(d, digit))]

\* The quotient (its limbs, k of them) and the remainder of r * Limb^k by d, for r < d
RECURSIVE DivZeros(_, _, _)
DivZeros(r, d, k) ==
    IF k = 0 THEN [q |-> <<>>, r |-> r]
    ELSE LET step == DivStep(r, d)
             rest == DivZeros(step.r, d, k - 1)
         IN  IF step.r = <<>> THEN [q |-> [i \in 1..k - 1 |-> 0] \o <<step.digit>>, r |-> <<>>]
             ELSE [q |-> rest.q \o <<step.digit>>, r |-> rest.r]

\* A double is m * 2^e with a mantissa m of exactly MantissaBits bits, or zero.
\* Numbers so small or so large that the exponent runs out do not occur here.
MantissaBits == 53
DZero == [m |-> <<>>, e |-> 0]

\* The double nearest to x * 2^e, ties to the even mantissa, for x of n bits.
\* Each intermediate number is bound to its value before the next is worked
\* out from it: q is x without the bits that do not fit, rem those bits.
Rounded(x, e, n) ==
    IF n = 0 THEN DZero
    ELSE IF n <= MantissaBits
    THEN [m |-> ShiftLeft(x, MantissaBits - n), e |-> e - (MantissaBits - n)]
    ELSE LET k == n - MantissaBits
         IN  CHOOSE result \in
               {IF BitLen(q1) > MantissaBits THEN [m |-> ShiftRight(q1, 1), e |-> e + k + 1]
                ELSE [m |-> q1, e |-> e + k] :
                  q1 \in {IF BigLess(half, rem) \/ (rem = half /\ Bit(q, 1) = 1)
                          THEN BigAdd(q, Big(1)) ELSE q :
                            <<q, rem, half>> \in
                               {<<f, BigSub(x, ShiftLeft(f, k)), ShiftLeft(Big(1), k - 1)>> :
                                   f \in {ShiftRight(x, k)}}}} : TRUE

Round(x, e) == CHOOSE result \in {Rounded(v, e, BitLen(v)) : v \in {x}} : TRUE

\* A whole number below 2^31 as a double
DNum(n) == Round(Big(n), 0)

\* a * b
DMul(a, b) == IF a.m = <<>> \/ b.m = <<>> THEN DZero ELSE Round(BigMul(a.m, b.m), a.e + b.e)

\* The limbs of a mantissa, and the limbs the quotient of two mantissas is carried to
QuotientLimbs == (MantissaBits + LimbBits - 1) \div LimbBits

\* a / b for b # 0: both mantissas are shifted to fill their top limbs (n, d),
\* the quotient q of a.m * Limb^QuotientLimbs by b.m has 60 bits or more, and a
\* last bit is set when the division left a remainder.
DDiv(a, b) ==
    IF a.m = <<>> THEN DZero
    ELSE LET fill == LimbBits * QuotientLimbs - MantissaBits
         IN  CHOOSE result \in
               {Round(BigAdd(BigAdd(q, q), sticky), a.e - b.e - LimbBits * QuotientLimbs - 1) :
                  <<q, sticky>> \in
                    {<<Trim(qr.q \o <<first>>), Big(IF qr.r = <<>> THEN 0 ELSE 1)>> :
                       <<first, qr>> \in
                         {<<IF BigLess(n, d) THEN 0 ELSE 1,
                            DivZeros(IF BigLess(n, d) THEN n ELSE BigSub(n, d), d, QuotientLimbs)>> :
                            <<n, d>> \in {<<ShiftLeft(a.m, fill), ShiftLeft(b.m, fill)>>}}}} : TRUE

\* a > b for doubles that are not negative
DGreater(a, b) ==
    IF a.m = <<>> THEN FALSE
    ELSE IF b.m = <<>> THEN TRUE
    ELSE IF a.e # b.e THEN a.e > b.e
    ELSE BigLess(b.m, a.m)

\* The next double above a
DNextUp(a) == Round(BigAdd(a.m, Big(1)), a.e)

----------------------------------------------------------------------------
(* Loan terms in JavaScript numbers: POST /loans/calculate and createLoan's test *)

\* What a client may ask the terms of: up to QuoteAmounts units of collateral.
QuoteAmounts == 1..20
QuoteBorrowTypes == {"XEC", "FIRMA"}

\* The prices of XEC while terms are calculated and used, in millionths of a USD.
QuotePrices == {30, 65}

\* The prices as numbers: the double nearest to n / 1000000, and 1.0 for FIRMA.
PriceUSD == [n \in QuotePrices |-> DDiv(DNum(n), DNum(1000000))]

getPriceNumber(asset, xec) == IF asset = "FIRMA" THEN DNum(FirmaPrice) ELSE PriceUSD[xec]

\* INITIAL_LTV and INITIAL_LTV / 100 as numbers
InitialLtvNumber == DNum(INITIAL_LTV)
InitialLtvRatio == DDiv(InitialLtvNumber, DNum(100))

\* calculateMaxBorrow's last two lines
MaxBorrow(maxBorrowUSD, borrowPrice) ==
    IF borrowPrice = DZero THEN DZero ELSE DDiv(maxBorrowUSD, borrowPrice)

\* POST /loans/calculate up to calculateMaxBorrow's first await, at an XEC price
\* of xec: the oracle's answers are these prices from here on. One calculation
\* is followed.
CalculateRequest(collateralType, collateralAmount, borrowType, xec) ==
    /\ quote.stage = "none"
    /\ quote' = [stage |-> "calculate", collateralType |-> collateralType,
                 collateralAmount |-> collateralAmount, borrowType |-> borrowType,
                 xec |-> xec,
                 collateralPrice |-> getPriceNumber(collateralType, xec),
                 borrowPrice |-> getPriceNumber(borrowType, xec)]
    /\ UNCHANGED <<users, loans, transactions, margin_calls, staking_pool, now, tasks,
                   last, acct, exact, mode, budget, emitted, bus, saved,
                   priceMemoryCache, price_cache, fetching, wall>>

\* calculateMaxBorrow from toUSD's answer to its await on the borrow price
CalculateCollateralValue ==
    /\ quote.stage = "calculate"
    /\ LET collateralValueUSD == DMul(DNum(quote.collateralAmount), quote.collateralPrice)
       IN  quote' = [stage |-> "calculate_price",
                     maxBorrowUSD |-> DMul(collateralValueUSD, InitialLtvRatio)] @@ quote
    /\ UNCHANGED <<users, loans, transactions, margin_calls, staking_pool, now, tasks,
                   last, acct, exact, mode, budget, emitted, bus, saved,
                   priceMemoryCache, price_cache, fetching, wall>>

\* calculateMaxBorrow from the borrow price on: the amount the route answers
CalculateMaxBorrow ==
    /\ quote.stage = "calculate_price"
    /\ quote' = [stage |-> "calculated",
                 maxBorrow |-> MaxBorrow(quote.maxBorrowUSD, quote.borrowPrice)] @@ quote
    /\ UNCHANGED <<users, loans, transactions, margin_calls, staking_pool, now, tasks,
                   last, acct, exact, mode, budget, emitted, bus, saved,
                   priceMemoryCache, price_cache, fetching, wall>>

\* createLoan up to its first await, for the collateral of the terms calculated:
\* the client asks for the maximum it was told (above = FALSE) or for the next
\* number above it.
CreateAtQuoteRequest(above) ==
    /\ quote.stage = "calculated"
    /\ quote' = [stage |-> "create", above |-> above,
                 borrowedAmount |-> IF above THEN DNextUp(quote.maxBorrow)
                                    ELSE quote.maxBorrow] @@ quote
    /\ UNCHANGED <<users, loans, transactions, margin_calls, staking_pool, now, tasks,
                   last, acct, exact, mode, budget, emitted, bus, saved,
                   priceMemoryCache, price_cache, fetching, wall>>

\* createLoan from toUSD's answer for the collateral to its second await
CreateAtQuoteCollateralValue ==
    /\ quote.stage = "create"
    /\ quote' = [stage |-> "create_borrowed",
                 collateralValueUSD |-> DMul(DNum(quote.collateralAmount),
                                             quote.collateralPrice)] @@ quote
    /\ UNCHANGED <<users, loans, transactions, margin_calls, staking_pool, now, tasks,
                   last, acct, exact, mode, budget, emitted, bus, saved,
                   priceMemoryCache, price_cache, fetching, wall>>

\* createLoan's ltv, (borrowedValueUSD / collateralValueUSD) * 100
CreateLtvNumber(borrowedValueUSD, collateralValueUSD) ==
    DMul(DDiv(borrowedValueUSD, collateralValueUSD), DNum(100))

\* createLoan from toUSD's answer for the borrowed amount to its test of the LTV
CreateAtQuoteLtvTest ==
    /\ quote.stage = "create_borrowed"
    /\ quote' = [stage |-> "tested",
                 borrowedValueUSD |-> DMul(quote.borrowedAmount, quote.borrowPrice)] @@ quote
    /\ UNCHANGED <<users, loans, transactions, margin_calls, staking_pool, now, tasks,
                   last, acct, exact, mode, budget, emitted, bus, saved,
                   priceMemoryCache, price_cache, fetching, wall>>

\* The test's operands, once both values are known
QuoteLtv == CreateLtvNumber(quote.borrowedValueUSD, quote.collateralValueUSD)

\* if (ltv > INITIAL_LTV) throw
QuoteRejected == DGreater(QuoteLtv, InitialLtvNumber)

NextQuote ==
    \/ \E c \in Assets, a \in QuoteAmounts, b \in QuoteBorrowTypes, p \in QuotePrices :
          CalculateRequest(c, a, b, p)
    \/ CalculateCollateralValue
    \/ CalculateMaxBorrow
    \/ \E above \in BOOLEAN : CreateAtQuoteRequest(above)
    \/ CreateAtQuoteCollateralValue
    \/ CreateAtQuoteLtvTest

SpecQuote == Init /\ [][NextQuote]_vars

----------------------------------------------------------------------------
(* Price oracle: getPrice with its two caches *)

\* fetchXECPrice accepts an answer that is ok and carries a truthy ecash.usd.
fetchXECPrice(response) == response.ok /\ response.usd # 0

\* defaults[asset] || 0
defaults(asset) == IF asset = "FIRMA" THEN FirmaPrice ELSE DefaultPrice

\* A variant of the fallback that skips the price_cache table.
getPriceDefault(asset) == defaults(asset)

\* The fallback after a failed fetch: the price_cache row, else the default.
getPriceFallback(asset) ==
    IF price_cache[asset].has THEN price_cache[asset].price_usd ELSE getPriceDefault(asset)

Resolved(asset, price, feed, response) ==
    [op |-> "get_price", ok |-> TRUE, error |-> "", asset |-> asset, price |-> price,
     feed |-> feed, response |-> response]

NoResponse == [ok |-> FALSE, usd |-> 0]

\* getPrice up to its await on the feed: FIRMA and a fresh memory entry are
\* answered at once, anything else asks the feed.
GetPrice(asset) ==
    /\ budget > 0
    /\ budget' = budget - 1
    /\ LET cached == priceMemoryCache[asset]
       IN  IF asset = "FIRMA"
           THEN /\ last' = Resolved(asset, FirmaPrice, "none", NoResponse)
                /\ UNCHANGED fetching
           ELSE IF cached.has /\ wall - cached.timestamp < PRICE_CACHE_TTL
           THEN /\ last' = Resolved(asset, cached.price, "none", NoResponse)
                /\ UNCHANGED fetching
           ELSE /\ Len(fetching) < MaxInFlight
                /\ fetching' = Append(fetching, asset)
                /\ last' = [op |-> "fetch", ok |-> TRUE, error |-> "", asset |-> asset]
    /\ emitted' = <<>>
    /\ UNCHANGED <<users, loans, transactions, margin_calls, staking_pool, now, tasks,
                   acct, exact, mode, bus, saved, priceMemoryCache, price_cache, wall, quote>>

\* getPrice from the feed's answer on: a good answer is cached in memory and in
\* price_cache (execute saves the database); a failure is logged and the
\* price_cache row, or the default, is returned.
GetPriceResume(i, response) ==
    /\ i \in 1..Len(fetching)
    /\ LET asset == fetching[i]
       IN  IF fetchXECPrice(response)
           THEN /\ priceMemoryCache' = [priceMemoryCache EXCEPT ![asset] =
                        [has |-> TRUE, price |-> response.usd, timestamp |-> wall]]
                /\ price_cache' = [price_cache EXCEPT ![asset] =
                        [has |-> TRUE, price_usd |-> response.usd]]
                /\ saved' = Ledger
                /\ last' = Resolved(asset, response.usd, "ok", response)
           ELSE /\ priceMemoryCache' =
                        IF price_cache[asset].has
                        THEN [priceMemoryCache EXCEPT ![asset] =
                                [has |-> TRUE, price |-> price_cache[asset].price_usd,
                                 timestamp |-> wall]]
                        ELSE priceMemoryCache
                /\ last' = Resolved(asset, getPriceFallback(asset), "failed", response)
                /\ UNCHANGED <<price_cache, saved>>
    /\ fetching' = SubSeq(fetching, 1, i - 1) \o SubSeq(fetching, i + 1, Len(fetching))
    /\ emitted' = <<>>
    /\ UNCHANGED <<users, loans, transactions, margin_calls, staking_pool, now, tasks,
                   acct, exact, mode, budget, bus, wall, quote>>

\* Time passes on the wall clock.
WallTick ==
    /\ wall < MaxWall
    /\ wall' = wall + 1
    /\ UNCHANGED <<users, loans, transactions, margin_calls, staking_pool, now, tasks,
                   last, acct, exact, mode, budget, emitted, bus, saved,
                   priceMemoryCache, price_cache, fetching, quote>>

\* The oracle alone: callers ask for prices while the feed answers, fails or
\* sends a body without a price.
NextOracle ==
    \/ \E a \in Assets : GetPrice(a)
    \/ \E i \in 1..MaxInFlight, r \in FeedResponses : GetPriceResume(i, r)
    \/ WallTick

SpecOracle == Init /\ [][NextOracle]_vars

----------------------------------------------------------------------------
(* Properties *)

BalanceColumns == {"balance_xec", "balance_firma", "balance_xecx"}

Live(status) == status = "active" \/ status = "margin_call"

\* C1: every balance of every user, in every asset, is never negative.
C1_BalancesNonNegative ==
    \A u \in Users : \A col \in BalanceColumns : users[u][col] >= 0

\* C2: a loan that is repaid or liquidated has no collateral, no principal and
\* no accrued interest left, and its closed_at is set.
C2_ClosedLoansAreZeroed ==
    \A l \in 1..Len(loans) :
        Closed(loans[l].status) =>
            /\ loans[l].collateral_amount = 0
            /\ loans[l].borrowed_amount = 0
            /\ loans[l].accrued_interest = 0
            /\ loans[l].closed_at # NULL

\* C3: once a loan is repaid or liquidated no step, however handlers interleave,
\* changes its status or one of its monetary fields.
C3_TerminalIsAbsorbing ==
    [][\A l \in 1..Len(loans) :
          Closed(loans[l].status) =>
              /\ loans'[l].status = loans[l].status
              /\ loans'[l].collateral_amount = loans[l].collateral_amount
              /\ loans'[l].borrowed_amount = loans[l].borrowed_amount
              /\ loans'[l].accrued_interest = loans[l].accrued_interest]_vars

\* C4: a loan that is active or in margin call holds a positive amount of
\* collateral.
C4_LiveLoansHoldCollateral ==
    \A l \in 1..Len(loans) :
        Live(loans[l].status) => loans[l].collateral_amount > 0

\* C5: a request to create a loan whose collateral amount exceeds the caller's
\* balance of the collateral asset (XEC, FIRMA or XECX) is refused with
\* InsufficientBalance and changes nothing.
C5_InsufficientBalanceRefused ==
    [][\A u \in Users, o \in Offers :
          (CreateLoanRequest(u, o)
              /\ users[u][BalanceColumn(o.collateralType)] < o.collateralAmount) =>
              /\ last'.error = "InsufficientBalance"
              /\ UNCHANGED <<users, loans, transactions, staking_pool, tasks>>]_vars

\* C6: creation succeeds when the LTV the request implies is at most INITIAL_LTV
\* (exactly INITIAL_LTV included) and fails with LTVExceeded, changing nothing,
\* when it is greater; every loan's LTV at creation is at most INITIAL_LTV.
C6_InitialLtvGate ==
    /\ [](\A l \in 1..Len(loans) :
            loans[l].initial_ltv.n <= INITIAL_LTV * loans[l].initial_ltv.d)
    /\ [][\A i \in 1..Len(tasks), p \in Prices :
            (tasks[i].kind = "create" /\ tasks[i].offer.collateralAmount > 0
                /\ CreateLoanResume(i, p)) =>
                LET o == tasks[i].offer
                    borrowedValue == o.borrowedAmount * getPrice(o.borrowedType, p)
                    collateralValue == o.collateralAmount * getPrice(o.collateralType, p)
                IN  IF borrowedValue * 100 <= INITIAL_LTV * collateralValue
                    THEN /\ last'.ok
                         /\ Len(loans') = Len(loans) + 1
                         /\ loans'[Len(loans')].initial_ltv =
                                [n |-> borrowedValue * 100, d |-> collateralValue]
                    ELSE /\ last'.error = "LTVExceeded"
                         /\ UNCHANGED <<users, loans, transactions, margin_calls,
                                        staking_pool>>]_vars

\* A loan was created at exactly INITIAL_LTV.
C6_Witness ==
    /\ last.op = "create" /\ last.ok
    /\ loans # <<>>
    /\ loans[Len(loans)].initial_ltv.d > 0
    /\ loans[Len(loans)].initial_ltv.n = INITIAL_LTV * loans[Len(loans)].initial_ltv.d

\* C7: a successful creation, in one step, debits the collateral from and credits
\* the borrowed amount to the caller, inserts one active loan with no accrued
\* interest and initial_ltv = current_ltv, and appends exactly one borrow
\* transaction; no other user and no other loan changes.
C7_CreateIsOneStep ==
    [][\A i \in 1..Len(tasks) :
          (tasks[i].kind = "create" /\ Len(loans') > Len(loans)) =>
              LET u == tasks[i].userId
                  o == tasks[i].offer
                  new == loans'[Len(loans')]
                  collateralColumn == BalanceColumn(o.collateralType)
                  borrowColumn == BalanceColumn(o.borrowedType)
              IN  /\ Len(loans') = Len(loans) + 1
                  /\ \A l \in 1..Len(loans) : loans'[l] = loans[l]
                  /\ new.user_id = u /\ new.status = "active"
                  /\ new.collateral_type = o.collateralType
                  /\ new.collateral_amount = o.collateralAmount
                  /\ new.borrowed_type = o.borrowedType
                  /\ new.borrowed_amount = o.borrowedAmount
                  /\ new.accrued_interest = 0
                  /\ new.initial_ltv = new.current_ltv
                  /\ users'[u][collateralColumn] = users[u][collateralColumn] - o.collateralAmount
                  /\ users'[u][borrowColumn] = users[u][borrowColumn] + o.borrowedAmount
                  /\ \A col \in BalanceColumns \ {collateralColumn, borrowColumn} :
                         users'[u][col] = users[u][col]
                  /\ \A v \in Users \ {u} : users'[v] = users[v]
                  /\ transactions' = Append(transactions,
                         [user_id |-> u, loan_id |-> new.id, type |-> "borrow",
                          asset |-> o.borrowedType, amount |-> o.borrowedAmount,
                          status |-> "confirmed"])]_vars

\* A creation has just succeeded and its borrow transaction is the newest row.
C7_Witness ==
    /\ last.op = "create" /\ last.ok
    /\ loans # <<>>
    /\ loans[Len(loans)].status = "active"
    /\ transactions[Len(transactions)].type = "borrow"
    /\ transactions[Len(transactions)].loan_id = Len(loans)

\* C8: a repayment debits actual = min(amount, principal + accrued interest) from
\* the caller; when that is less than the debt it pays interest first: the new
\* accrued interest is max(0, accrued - actual), the new principal is principal -
\* max(0, actual - accrued), the answer is their sum as remaining debt and "not
\* fully repaid", and collateral and status stay as they were.
C8_RepayInterestFirst ==
    [][\A l \in 1..Len(loans), u \in Users : \A x \in RepayAmounts(l) :
          (RepayLoan(l, x, u) /\ last'.ok) =>
              LET loan == loans[l]
                  debt == loan.borrowed_amount + loan.accrued_interest
                  actual == IF x < debt THEN x ELSE debt
                  borrowColumn == BalanceColumn(loan.borrowed_type)
              IN  /\ users'[u][borrowColumn] = users[u][borrowColumn] - actual
                  /\ actual < debt =>
                        /\ loans'[l].accrued_interest = Max(0, loan.accrued_interest - actual)
                        /\ loans'[l].borrowed_amount =
                               loan.borrowed_amount - Max(0, actual - loan.accrued_interest)
                        /\ last'.remainingDebt =
                               loans'[l].borrowed_amount + loans'[l].accrued_interest
                        /\ last'.isFullyRepaid = FALSE
                        /\ loans'[l].collateral_amount = loan.collateral_amount
                        /\ loans'[l].status = loan.status]_vars

\* A partial repayment has just paid off accrued interest and part of the principal.
C8_Witness ==
    /\ last.op = "repay" /\ last.ok /\ ~last.isFullyRepaid
    /\ \E l \in 1..Len(loans) :
          /\ Live(loans[l].status)
          /\ acct[l].interest > 0
          /\ loans[l].accrued_interest = 0
          /\ loans[l].borrowed_amount < acct[l].borrowed_out
          /\ loans[l].borrowed_amount > 0

\* C9: a loan that was created, given more collateral any number of times and
\* then repaid in full has paid back all of its collateral, the original and
\* every addition, and has cost its owner, in the borrowed asset, exactly the
\* interest that accrued on it.
C9_FullRepayReturnsEverything ==
    \A l \in 1..Len(loans) :
        loans[l].status = "repaid" =>
            /\ acct[l].coll_out = acct[l].coll_in
            /\ acct[l].repaid = acct[l].borrowed_out + acct[l].interest

\* A loan was given more collateral and then repaid in full.
C9_Witness ==
    \E l \in 1..Len(loans) :
        /\ loans[l].status = "repaid"
        /\ acct[l].coll_in > 0
        /\ \E k \in 1..Len(transactions) :
              transactions[k].type = "add_collateral" /\ transactions[k].loan_id = l

\* C10: a repayment or an addition of collateral asked for by someone who does
\* not own the loan, or for a loan that is closed or does not exist, is refused
\* and changes no balance, no loan, no pool field and appends no transaction.
C10_RefusedCallsChangeNothing ==
    [][\A l \in LoanIds, u \in Users :
          LET refused == \/ l > Len(loans)
                         \/ loans[l].user_id # u
                         \/ Closed(loans[l].status)
              collateral == IF l > Len(loans) THEN "XEC" ELSE loans[l].collateral_type
          IN  (/\ refused
               /\ \/ \E x \in RepayAmounts(l) : RepayLoan(l, x, u)
                  \/ \E x \in AddAmounts(collateral) : AddCollateralRequest(l, x, u)) =>
                  /\ last'.ok = FALSE
                  /\ UNCHANGED <<users, loans, transactions, margin_calls, staking_pool,
                                 tasks>>]_vars

\* A call by someone who does not own the loan has just been refused.
C10_Witness ==
    /\ last.op \in {"repay", "add_collateral"}
    /\ ~last.ok
    /\ last.error = "Unauthorized"


\* C11: a successful addition of collateral debits exactly the amount from the
\* owner's balance of the collateral asset, raises the loan's collateral by
\* exactly the amount, sets current_ltv to the LTV at the current price, turns
\* margin_call into active exactly when that LTV is below MARGIN_CALL_LTV and
\* otherwise leaves the status, appends one add_collateral transaction, and
\* leaves principal and accrued interest as they were.
C11_AddCollateralContract ==
    [][\A i \in 1..Len(tasks), p \in AnyPrice :
          (tasks[i].kind = "add_collateral" /\ AddCollateralResume(i, p)) =>
              LET id == tasks[i].loan.id
                  u == tasks[i].userId
                  amount == tasks[i].amount
                  old == loans[id]
                  new == loans'[id]
                  column == BalanceColumn(old.collateral_type)
                  debtValue == (old.borrowed_amount + old.accrued_interest)
                                   * getPrice(old.borrowed_type, p)
                  collateralValue == (old.collateral_amount + amount)
                                         * getPrice(old.collateral_type, p)
                  below == collateralValue > 0
                               /\ debtValue * 100 < MARGIN_CALL_LTV * collateralValue
              IN  /\ users'[u][column] = users[u][column] - amount
                  /\ \A v \in Users \ {u} : users'[v] = users[v]
                  /\ new.collateral_amount = old.collateral_amount + amount
                  /\ new.current_ltv = IF collateralValue = 0 THEN [n |-> 100, d |-> 1]
                                       ELSE Frac(debtValue * 100, collateralValue)
                  /\ new.status = IF old.status = "margin_call" /\ below THEN "active"
                                  ELSE old.status
                  /\ new.borrowed_amount = old.borrowed_amount
                  /\ new.accrued_interest = old.accrued_interest
                  /\ transactions' = Append(transactions,
                         [user_id |-> u, loan_id |-> id, type |-> "add_collateral",
                          asset |-> old.collateral_type, amount |-> amount,
                          status |-> "confirmed"])]_vars

\* Collateral was just added to a loan in margin call, which is active again.
C11_Witness ==
    /\ last.op = "add_collateral" /\ last.ok
    /\ transactions[Len(transactions)].type = "add_collateral"
    /\ \E l \in 1..Len(loans) :
          /\ transactions[Len(transactions)].loan_id = l
          /\ loans[l].status = "active"
          /\ FracLT(loans[l].current_ltv, MARGIN_CALL_LTV)
          /\ \E k \in 1..Len(margin_calls) : margin_calls[k].loan_id = l

\* C12: updates of a loan are atomic read-modify-writes, so that once every
\* handler has finished an open loan holds exactly the collateral taken from its
\* owner for it (two concurrent additions of x and y add x + y) and owes exactly
\* what was lent plus the interest charged less what was repaid (a repayment
\* concurrent with an accrual is not overwritten), as after any serial order.
C12_LoanUpdatesSerialise ==
    tasks = <<>> =>
        \A l \in 1..Len(loans) :
            Live(loans[l].status) =>
                /\ loans[l].collateral_amount = acct[l].coll_in - acct[l].coll_out
                /\ loans[l].borrowed_amount + loans[l].accrued_interest =
                       acct[l].borrowed_out + acct[l].interest - acct[l].repaid

\* C13: a liquidation sells min(debt value * (1 + LIQUIDATION_FEE) / price of the
\* collateral, collateral) and returns the rest, so sold + returned = collateral
\* and sold <= collateral; in the same step the loan becomes liquidated with its
\* monetary fields zeroed, the owner's balance of the collateral asset grows by
\* exactly what is returned, and exactly one liquidation transaction with
\* amount = sold is appended.
C13_LiquidationAmounts ==
    [][\A i \in 1..Len(tasks), p \in AnyPrice :
          (tasks[i].kind = "scan" /\ ScanAndLiquidateStep(i, p) /\ last'.op = "liquidate") =>
              LET id == Head(tasks[i].queue).id
                  old == loans[id]
                  new == loans'[id]
                  owner == old.user_id
                  column == BalanceColumn(old.collateral_type)
                  debtValue == (old.borrowed_amount + old.accrued_interest)
                                   * getPrice(old.borrowed_type, p)
                  price == getPrice(old.collateral_type, p)
                  sold == transactions'[Len(transactions')].amount
                  returned == users'[owner][column] - users[owner][column]
              IN  /\ IF debtValue * (FeeDen + FeeNum) >= old.collateral_amount * price * FeeDen
                     THEN sold = old.collateral_amount
                     ELSE sold * price * FeeDen = debtValue * (FeeDen + FeeNum)
                  /\ sold + returned = old.collateral_amount
                  /\ sold <= old.collateral_amount
                  /\ returned >= 0
                  /\ new.status = "liquidated"
                  /\ new.collateral_amount = 0
                  /\ new.borrowed_amount = 0
                  /\ new.accrued_interest = 0
                  /\ new.closed_at # NULL
                  /\ \A l \in 1..Len(loans) : l # id => loans'[l] = loans[l]
                  /\ \A col \in BalanceColumns \ {column} : users'[owner][col] = users[owner][col]
                  /\ \A v \in Users \ {owner} : users'[v] = users[v]
                  /\ transactions' = Append(transactions,
                         [user_id |-> owner, loan_id |-> id, type |-> "liquidation",
                          asset |-> old.collateral_type, amount |-> sold,
                          status |-> "confirmed"])]_vars

\* A loan was just liquidated and part of its collateral went back to the owner.
C13_Witness ==
    /\ last.op = "liquidate"
    /\ transactions[Len(transactions)].type = "liquidation"
    /\ \E l \in 1..Len(loans) :
          /\ transactions[Len(transactions)].loan_id = l
          /\ loans[l].status = "liquidated"
          /\ acct[l].coll_out > 0
          /\ transactions[Len(transactions)].amount + acct[l].coll_out = acct[l].coll_in

\* C14: a run of the liquidation scan takes every loan that is active or in
\* margin call, liquidates it when its LTV at the current price is at least
\* LIQUIDATION_LTV (exactly LIQUIDATION_LTV included; 100 when the collateral is
\* worth nothing) and leaves it untouched when the LTV is lower.
C14_ScanLiquidatesAtThreshold ==
    [][/\ ScanAndLiquidateStart =>
              LET queue == IF tasks' = tasks THEN <<>> ELSE tasks'[Len(tasks')].queue
              IN  {queue[k].id : k \in 1..Len(queue)} =
                      {l \in 1..Len(loans) : loans[l].status \in {"active", "margin_call"}}
       /\ \A i \in 1..Len(tasks), p \in AnyPrice :
              (tasks[i].kind = "scan" /\ ScanAndLiquidateStep(i, p)) =>
                  LET id == Head(tasks[i].queue).id
                      old == loans[id]
                      debtValue == (old.borrowed_amount + old.accrued_interest)
                                       * getPrice(old.borrowed_type, p)
                      collateralValue == old.collateral_amount * getPrice(old.collateral_type, p)
                      atOrOver == IF collateralValue = 0 THEN TRUE
                                  ELSE IF collateralValue > 0
                                  THEN debtValue * 100 >= LIQUIDATION_LTV * collateralValue
                                  ELSE debtValue * 100 <= LIQUIDATION_LTV * collateralValue
                  IN  IF atOrOver
                      THEN loans'[id].status = "liquidated"
                      ELSE /\ loans'[id] = loans[id]
                           /\ UNCHANGED <<users, transactions, margin_calls>>]_vars

\* A loan at exactly LIQUIDATION_LTV was just liquidated: what was sold is the
\* debt value plus the fee, and the debt value was LIQUIDATION_LTV percent of
\* the collateral.
C14_Witness ==
    /\ last.op = "liquidate"
    /\ \E l \in 1..Len(loans) :
          /\ transactions[Len(transactions)].loan_id = l
          /\ transactions[Len(transactions)].type = "liquidation"
          /\ loans[l].status = "liquidated"
          /\ acct[l].coll_in % 100 = 0
          /\ transactions[Len(transactions)].amount * FeeDen =
                 LIQUIDATION_LTV * (FeeDen + FeeNum) * (acct[l].coll_in \div 100)

\* A run of updateAllLTVs ends in this step with p the price throughout: its
\* last pass, after passes at the same price, or at once when its list is
\* empty (no pass asks the feed, so p is whatever the feed holds).
UpdateAllLTVsCompletes(p) ==
    \/ UpdateAllLTVsStart /\ tasks' = tasks
    \/ \E i \in 1..Len(tasks) :
          /\ tasks[i].kind = "update_ltvs"
          /\ Len(tasks[i].queue) = 1
          /\ tasks[i].xecs \subseteq {p}
          /\ UpdateAllLTVsStep(i, p)

\* The LTV of a loan row at price p.
LtvAt(loan, p) ==
    calculateLTV(loan.borrowed_type, loan.borrowed_amount, loan.accrued_interest,
                 loan.collateral_type, loan.collateral_amount, p)

InMarginBand(ltv) == FracGE(ltv, MARGIN_CALL_LTV) /\ FracLT(ltv, LIQUIDATION_LTV)

\* C15: right after a run of update_all_ltvs during which the price did not
\* change, every loan that is active or in margin call is in margin call if and
\* only if its LTV at that price is at least MARGIN_CALL_LTV and below
\* LIQUIDATION_LTV.
C15_MarginCallIffInBand ==
    [][\A p \in AnyPrice :
          UpdateAllLTVsCompletes(p) =>
              \A l \in 1..Len(loans') :
                  Live(loans'[l].status) =>
                      (loans'[l].status = "margin_call" <=> InMarginBand(LtvAt(loans'[l], p)))]_vars

\* C16: when update_all_ltvs handles a loan that is active, the loan becomes
\* margin_call exactly when its LTV at the current price is at least
\* MARGIN_CALL_LTV (exactly MARGIN_CALL_LTV included) and below LIQUIDATION_LTV,
\* and stays active otherwise (below MARGIN_CALL_LTV as well as at or above
\* LIQUIDATION_LTV); in every case current_ltv becomes that LTV.
C16_UpdateOfActiveLoan ==
    [][\A i \in 1..Len(tasks), p \in AnyPrice :
          (/\ tasks[i].kind = "update_ltvs"
           /\ loans[Head(tasks[i].queue).id].status = "active"
           /\ UpdateAllLTVsStep(i, p)) =>
              LET id == Head(tasks[i].queue).id
                  old == loans[id]
                  new == loans'[id]
                  debtValue == (old.borrowed_amount + old.accrued_interest)
                                   * getPrice(old.borrowed_type, p)
                  collateralValue == old.collateral_amount * getPrice(old.collateral_type, p)
                  ltv == IF collateralValue = 0 THEN [n |-> 100, d |-> 1]
                         ELSE IF collateralValue > 0
                         THEN [n |-> debtValue * 100, d |-> collateralValue]
                         ELSE [n |-> -(debtValue * 100), d |-> -collateralValue]
                  inBand == /\ ltv.n >= MARGIN_CALL_LTV * ltv.d
                            /\ ltv.n < LIQUIDATION_LTV * ltv.d
              IN  /\ new.current_ltv = ltv
                  /\ new.status = IF inBand THEN "margin_call" ELSE "active"
                  /\ new.collateral_amount = old.collateral_amount
                  /\ new.borrowed_amount = old.borrowed_amount
                  /\ new.accrued_interest = old.accrued_interest
                  /\ new.closed_at = old.closed_at]_vars

\* An active loan at exactly MARGIN_CALL_LTV was just put in margin call.
C16_Witness ==
    /\ last.op = "update_ltvs"
    /\ margin_calls # <<>>
    /\ \E l \in 1..Len(loans) :
          /\ margin_calls[Len(margin_calls)].loan_id = l
          /\ loans[l].status = "margin_call"
          /\ loans[l].current_ltv.d > 0
          /\ loans[l].current_ltv.n = MARGIN_CALL_LTV * loans[l].current_ltv.d

\* C17: update_all_ltvs handles every loan that is active or in margin call, and
\* a loan in margin call whose LTV at the current price is below MARGIN_CALL_LTV
\* is active again when the run ends.
C17_MarginCallRestored ==
    [][/\ UpdateAllLTVsStart =>
              LET queue == IF tasks' = tasks THEN <<>> ELSE tasks'[Len(tasks')].queue
              IN  {queue[k].id : k \in 1..Len(queue)} =
                      {l \in 1..Len(loans) : Live(loans[l].status)}
       /\ \A p \in AnyPrice :
              UpdateAllLTVsCompletes(p) =>
                  \A l \in 1..Len(loans) :
                      (/\ loans[l].status = "margin_call"
                       /\ FracLT(LtvAt(loans[l], p), MARGIN_CALL_LTV)) =>
                          loans'[l].status = "active"]_vars

\* C18: accrue_interest, called on a loan that is active or in margin call h >= 1
\* whole hours after the loan's last interest update, adds principal * rate * h
\* to the accrued interest and stamps last_interest_update, whatever else has
\* touched the loan since.
C18_AccrualFromLastInterestUpdate ==
    [][\A i \in 1..Len(tasks), p \in AnyPrice :
          (tasks[i].kind = "accrue" /\ AccrueInterestStep(i, p)) =>
              LET id == Head(tasks[i].queue).id
                  old == loans[id]
                  new == loans'[id]
                  hours == (now - old.last_interest_update) * HoursPerTick
              IN  (Live(old.status) /\ hours >= 1) =>
                      /\ new.accrued_interest * RateDen =
                             old.accrued_interest * RateDen
                                 + old.borrowed_amount * RateNum * hours
                      /\ new.last_interest_update = now]_vars

\* C19: the hourly tick calls accrue_interest on every loan that is not closed,
\* those in margin call as well as the active ones.
C19_AccrualCoversMarginCall ==
    [][AccrueInterestStart =>
          LET queue == IF tasks' = tasks THEN <<>> ELSE tasks'[Len(tasks')].queue
          IN  \A l \in 1..Len(loans) :
                  ~Closed(loans[l].status) => \E k \in 1..Len(queue) : queue[k].id = l]_vars

\* C20: accrue_interest called again on a loan less than an hour after a call
\* that accrued leaves the loan's accrued interest, current_ltv and status and
\* the margin-call log as that call left them.
C20_AccrualIdempotentWithinHour ==
    [][\A i \in 1..Len(tasks), p \in AnyPrice :
          (/\ tasks[i].kind = "accrue"
           /\ loans[Head(tasks[i].queue).id].last_interest_update = now
           /\ acct[Head(tasks[i].queue).id].interest > 0
           /\ AccrueInterestStep(i, p)) =>
              LET id == Head(tasks[i].queue).id
              IN  /\ loans'[id].accrued_interest = loans[id].accrued_interest
                  /\ loans'[id].current_ltv = loans[id].current_ltv
                  /\ loans'[id].status = loans[id].status
                  /\ loans'[id].last_interest_update = loans[id].last_interest_update
                  /\ margin_calls' = margin_calls]_vars

\* The only loan accrued interest within this hour, and the accrual called on
\* it last was the second one.
C20_Witness ==
    /\ last.op = "accrue"
    /\ "accrued" \in DOMAIN last
    /\ ~last.accrued
    /\ Len(loans) = 1
    /\ loans[1].status = "active"
    /\ loans[1].last_interest_update = now
    /\ acct[1].interest > 0
    /\ loans[1].accrued_interest = acct[1].interest

\* C21: in every reachable state the staking pool has total_xecx =
\* platform_base_xecx + user_contributed_xecx, user_contributed_xecx >= 0 and
\* total_xecx >= platform_base_xecx.
C21_PoolBounds ==
    /\ staking_pool.total_xecx =
           staking_pool.platform_base_xecx + staking_pool.user_contributed_xecx
    /\ staking_pool.user_contributed_xecx >= 0
    /\ staking_pool.total_xecx >= staking_pool.platform_base_xecx

\* C22: once no handler is pending, user_contributed_xecx equals the sum of
\* collateral_amount over the active and margin_call loans backed by XEC.
C22_PoolFollowsCollateral ==
    tasks = <<>> => staking_pool.user_contributed_xecx = totalUserCollateral

\* C23: a distribution over at least one open XEC-backed loan (collateral sum
\* not 0) pays each such loan pool.total * DAILY_YIELD_RATE * collateral / sum;
\* the rewards sum to the daily reward; each recipient's staking_rewards_earned
\* rises by the sum of the rewards of that user's loans, with exactly one
\* staking_reward transaction per recipient and none else; and
\* total_rewards_distributed rises by the amount paid: all in one step.
C23_DistributionShares ==
    [][(distributeStakingRewards /\ xecLoans # {} /\ totalUserCollateral # 0) =>
          LET reward == [i \in xecLoans |->
                            loans'[i].staking_yield_earned - loans[i].staking_yield_earned]
              paid == SumOver(xecLoans, reward)
              loansOf(u) == {i \in xecLoans : loans[i].user_id = u}
              paidTo(u) == SumOver(loansOf(u), [i \in loansOf(u) |-> reward[i]])
              recipients == {loans[i].user_id : i \in xecLoans}
              newTx == SubSeq(transactions', Len(transactions) + 1, Len(transactions'))
              \* pool.total * 0.0001 XEC, in reward units
              daily == staking_pool.total_xecx * YieldNum * (RewardUnit \div YieldDen)
          IN  /\ \A i \in xecLoans :
                    reward[i] * totalUserCollateral = daily * loans[i].collateral_amount
              /\ paid = daily
              /\ \A i \in 1..Len(loans) :
                    loans' [i] = [loans[i] EXCEPT !.staking_yield_earned =
                                     IF i \in xecLoans THEN @ + reward[i] ELSE @]
              /\ \A u \in Users :
                    users'[u] = [users[u] EXCEPT !.staking_rewards_earned = @ + paidTo(u)]
              /\ SubSeq(transactions', 1, Len(transactions)) = transactions
              /\ Len(newTx) = Cardinality(recipients)
              /\ \A u \in recipients : \E k \in 1..Len(newTx) :
                    newTx[k] = Tx(u, NULL, "staking_reward", "XEC", paidTo(u), "confirmed")
              /\ staking_pool'.total_rewards_distributed =
                    staking_pool.total_rewards_distributed + paid
              /\ staking_pool'.total_xecx = staking_pool.total_xecx
              /\ staking_pool'.user_contributed_xecx = staking_pool.user_contributed_xecx
              /\ exact' = exact]_vars

\* The distribution that ran last paid two users for their loans.
C23_Witness ==
    /\ last.op = "distribute"
    /\ last.ok
    /\ last.recipientCount = 2
    /\ last.totalDistributed > 0
    /\ Len(emitted) = 2
    /\ \A u \in Users : users[u].staking_rewards_earned > 0

\* C24: a distribution invoked again before the clock has moved on from the
\* last one (the same UTC day) adds no reward to any loan or user, appends no
\* transaction and leaves total_rewards_distributed as it is.
C24_OncePerDay ==
    [][(distributeStakingRewards /\ staking_pool.last_reward_distribution = now) =>
          /\ loans' = loans
          /\ users' = users
          /\ transactions' = transactions
          /\ staking_pool'.total_rewards_distributed =
                staking_pool.total_rewards_distributed]_vars

\* C25: a distribution that finds a collateral sum of 0 over the open
\* XEC-backed loans, whether or not there are such loans, returns
\* {distributed: 0, recipients: 0} and changes no loan, user, transaction or
\* pool field.
C25_ZeroSumReturnsZero ==
    [][(distributeStakingRewards /\ totalUserCollateral = 0) =>
          /\ last'.ok
          /\ last'.totalDistributed = 0
          /\ last'.recipientCount = 0
          /\ UNCHANGED <<loans, users, transactions, staking_pool>>]_vars

\* C26: the margin-call log only grows, by one entry at a time, and an entry
\* is appended only for a loan that is not in margin_call already, however the
\* update_all_ltvs and accrue_interest ticks interleave.
C26_OneEntryPerCrossing ==
    [][margin_calls' # margin_calls =>
          /\ Len(margin_calls') = Len(margin_calls) + 1
          /\ SubSeq(margin_calls', 1, Len(margin_calls)) = margin_calls
          /\ loans[margin_calls'[Len(margin_calls')].loan_id].status # "margin_call"]_vars

\* C27: a per-user event emitted for user U is sent exactly once to each
\* channel that is OPEN and was attached to U by an auth frame, and to no
\* other channel.
C27_SentToOpenChannelsOfUser ==
    [][\A u \in Users, e \in Events :
          broadcastToUser(u, e) =>
              \A c \in Channels :
                  inbox'[c] = IF sockets[c].readyState = "OPEN" /\ u \in sockets[c].authed
                              THEN Append(inbox[c], [type |-> e])
                              ELSE inbox[c]]_vars

\* Both channels authenticated, one as u1 and the other as u2, one of them is
\* closing, and a channel has received an event after its auth:success.
C27_Witness ==
    /\ \E c, d \in Channels : /\ c # d
                               /\ sockets[c].authed = {"u1"}
                               /\ sockets[d].authed = {"u2"}
                               /\ sockets[d].readyState = "CLOSING"
                               /\ Len(inbox[c]) = 2
                               /\ inbox[c][2].type \in Events
                               /\ Len(inbox[d]) = 1

\* What a notification tells, as a statement about the ledger.
Committed(e) ==
    CASE e.event = "balance:update" ->
            /\ users[e.userId].balance_xec = e.data.xec
            /\ users[e.userId].balance_firma = e.data.firma
            /\ users[e.userId].balance_xecx = e.data.xecx
      [] e.event = "loan:ltv:update" ->
            /\ loans[e.data.loanId].user_id = e.userId
            /\ loans[e.data.loanId].current_ltv = e.data.ltv
      [] e.event = "loan:margin-call" ->
            /\ loans[e.data.loanId].status = "margin_call"
            /\ margin_calls # <<>>
            /\ margin_calls[Len(margin_calls)].loan_id = e.data.loanId
            /\ margin_calls[Len(margin_calls)].ltv_at_alert = e.data.ltv
      [] e.event = "loan:liquidation" ->
            /\ loans[e.data.loanId].status = "liquidated"
            /\ transactions[Len(transactions)] =
                  Tx(e.userId, e.data.loanId, "liquidation",
                     loans[e.data.loanId].collateral_type, e.data.collateralSold, "confirmed")
      [] e.event = "staking:reward" ->
            \E k \in 1..Len(transactions) :
                /\ k > Len(transactions) - Len(emitted)
                /\ transactions[k] =
                      Tx(e.userId, NULL, "staking_reward", "XEC", e.data.amount, "confirmed")

C29_LtvInRange ==
    (last.op = "get_loan" /\ last.ok /\ Live(loans[last.loanId].status)) =>
        FracGE(last.currentLTV, 0) /\ FracLE(last.currentLTV, 100)

LogSign(type) ==
    CASE type \in {"deposit_xec", "deposit_firma", "borrow", "firma_swap", "staking_reward"} -> 1
      [] type \in {"repay", "withdraw_firma"} -> -1
      [] OTHER -> 0

\* The net sum of the log entries log[from..Len(log)] of user u in the asset.
RECURSIVE NetLogged(_, _, _, _)
NetLogged(log, from, u, asset) ==
    IF from > Len(log) THEN 0
    ELSE (IF log[from].user_id = u /\ log[from].asset = asset
          THEN LogSign(log[from].type) * log[from].amount ELSE 0)
         + NetLogged(log, from + 1, u, asset)

\* C31: a user's balance in an asset moves only as the entries appended to the
\* transaction log for that user and asset say, collateral moved into a loan
\* apart: in every step the change of the balance is the net sum of the new
\* entries minus the collateral the step took for the user's loans.
C31_BalancesFollowLog ==
    [][\A u \in Users, asset \in Assets :
          LET mine == {l \in 1..Len(acct') : /\ loans'[l].user_id = u
                                             /\ loans'[l].collateral_type = asset}
              movedIn == SumOver(mine, [l \in mine |->
                             acct'[l].coll_in - (IF l <= Len(acct) THEN acct[l].coll_in ELSE 0)])
          IN  users'[u][BalanceColumn(asset)] - users[u][BalanceColumn(asset)] =
                  NetLogged(transactions', Len(transactions) + 1, u, asset) - movedIn]_vars

C33_ResolutionOrder ==
    [][/\ last'.op = "get_price" =>
            /\ last'.ok
            /\ last'.asset = "FIRMA" => last'.price = FirmaPrice /\ fetching' = fetching
       /\ (last'.op = "get_price" /\ budget' < budget /\ last'.asset # "FIRMA") =>
            /\ fetching' = fetching
            /\ priceMemoryCache[last'.asset].has
            /\ wall - priceMemoryCache[last'.asset].timestamp < PRICE_CACHE_TTL
            /\ last'.price = priceMemoryCache[last'.asset].price
       /\ Len(fetching') > Len(fetching) =>
            LET a == fetching'[Len(fetching')]
            IN  /\ a # "FIRMA"
                /\ ~(priceMemoryCache[a].has /\ wall - priceMemoryCache[a].timestamp < PRICE_CACHE_TTL)
       /\ (last'.op = "get_price" /\ Len(fetching') < Len(fetching)) =>
            LET a == last'.asset
                r == last'.response
            IN  IF r.ok /\ r.usd # 0
                THEN /\ last'.price = r.usd
                     /\ priceMemoryCache'[a].has /\ priceMemoryCache'[a].price = r.usd
                     /\ price_cache'[a].has /\ price_cache'[a].price_usd = r.usd
                ELSE /\ last'.price = IF price_cache[a].has THEN price_cache[a].price_usd
                                      ELSE DefaultPrice
                     /\ price_cache' = price_cache]_vars

\* A fetch has failed after an earlier one had stored a price: the stored
\* price, not the seeded one, is the answer.
C33_Witness ==
    /\ last.op = "get_price"
    /\ last.feed = "failed"
    /\ last.price = 65
    /\ priceMemoryCache[last.asset].price = 65

\* The step is a pass of the scan's loop, run i.
ScanPass(i) ==
    /\ i \in 1..Len(tasks)
    /\ tasks[i].kind = "scan"
    /\ last'.op \in {"scan", "liquidate"}
    /\ \/ tasks' = RemoveAt(tasks, i)
       \/ Len(tasks') = Len(tasks) /\ tasks'[i] # tasks[i]

C35_CollateralPaidBackOnce ==
    \A l \in 1..Len(acct) : acct[l].coll_out <= acct[l].coll_in

\* C36: the balance check and the debit of loan creation are one step for
\* other requests: whenever a request creates a loan, the owner's balance at
\* the debit covers the collateral, so of two requests in flight that the
\* balance covers only one by one, at most one creates a loan.
C36_CheckAndDebitAtomic ==
    [][(last'.op = "create" /\ last'.ok /\ Len(loans') = Len(loans) + 1) =>
          LET loan == loans'[Len(loans')]
          IN  users[loan.user_id][BalanceColumn(loan.collateral_type)] >= loan.collateral_amount]_vars

\* C37: the maximum calculated for a collateral is the cap createLoan applies:
\* at the prices it was calculated at, a request for exactly that amount passes
\* the test with an LTV of INITIAL_LTV, a request for more is refused, and the
\* maximum is 0 when the borrowed asset's price is 0.
C37_MaxBorrowIsTheCap ==
    /\ quote.stage = "tested" =>
          IF quote.above THEN QuoteRejected
          ELSE ~QuoteRejected /\ QuoteLtv = InitialLtvNumber
    /\ quote.stage \in {"calculated", "create", "create_borrowed", "tested"} =>
          (quote.borrowPrice = DZero => quote.maxBorrow = DZero)

\* C38: a channel that has closed is in no user's set of userConnections,
\* whatever auth frames it sent before. A user's set that became empty is the
\* key deleted from the map, so no empty set is kept.
C38_ClosedChannelDetached ==
    \A c \in Channels : sockets[c].readyState = "CLOSED" =>
        \A u \in Users : c \notin userConnections[u]

====
